---- MODULE Spec2Model ----
(***************************************************************************)
(* Behavioural-experiment runner (face perception, exp. 1, and face        *)
(* memory, exp. 2): the stimulus generators, the question prompts and the  *)
(* session state machine with its display-fidelity (zoom) monitor.         *)
(*                                                                         *)
(* Device pixel ratios are integers in hundredths (1.25 is 125), so the    *)
(* code's tolerance test  Math.abs(a - b) > 0.01  is  Abs(a - b) > 1.      *)
(***************************************************************************)
EXTENDS Integers, Sequences, FiniteSets, TLC

VARIABLES
    grid,           \* generateGridForRound: the grid last returned
    gridVariant,    \* which copy of generateGridForRound produced it
    assignment,     \* generateStimulusAssignment: the trial list returned
    assignmentDone, \* generateStimulusAssignment has returned
    rounds,         \* generateAllRounds: the round list returned
    mainExperiment  \* createMainExperiment: the presentations built

gridVars == <<grid, gridVariant>>

assignVars == <<assignment, assignmentDone>>

roundVars == <<rounds, mainExperiment>>

\* The session state machine and the display-fidelity monitor
VARIABLES
    experiment,     \* "perception" (exp. 1) or "memory" (exp. 2)
    pc,             \* the jsPsych screen on display
    cur,            \* presentation running: 0 practice, 1.. main block
    choices,        \* buttons rendered by the zoomCheck screen
    trialFinished,  \* jsPsych's current_trial_finished with no next trial started
    endMessage,     \* end_message given to jsPsych.endExperiment
    dpr,            \* window.devicePixelRatio, in hundredths
    fullscreen,     \* isFullscreen()
    fsRequest,      \* a requestFullscreen() promise is pending
    fsChangePending,\* a fullscreenchange event waits for its handler
    fsMonitoring,   \* setupFullscreenMonitoring has run
    zoomCheckAttempts,
    zoomCheckBypassed,
    initialDPR,
    approvedDPR,
    zoomChanges,
    zoomCheckInterval,  \* the 500 ms poll is set
    resizeListener,     \* checkForZoomChange listens to window resize
    mqlDPR,             \* ratio the matchMedia listener is keyed to
    experimentTerminatedDueToZoom,
    zoomTrackingActive,
    inPracticeMode,
    lastWarnedDPR,
    experimentEnded,
    fullscreenWarningShown,
    trialNumber,        \* trialNumber / roundNumber
    outcomes,           \* rows written by the record step
    warningOverlay,     \* #zoom-warning-overlay is in the document
    fsOverlay,          \* #fullscreen-warning-overlay is in the document
    warnLog,            \* ratios for which showZoomWarning ran, in order
    terminationOverlays,\* #zoom-termination-overlay elements appended
    zoomEndCalls,       \* jsPsych.endExperiment calls made by the monitor
    progressBar         \* progressBarCreated

flowVars == <<experiment, pc, cur, choices, trialFinished, endMessage>>

envVars == <<dpr, fullscreen, fsRequest, fsChangePending, fsMonitoring>>

monVars == <<zoomCheckAttempts, zoomCheckBypassed, initialDPR, approvedDPR,
             zoomChanges, zoomCheckInterval, resizeListener, mqlDPR,
             experimentTerminatedDueToZoom, zoomTrackingActive, inPracticeMode,
             lastWarnedDPR>>

uiVars == <<fullscreenWarningShown, warningOverlay, fsOverlay, warnLog,
            terminationOverlays, zoomEndCalls, progressBar>>

dataVars == <<experimentEnded, trialNumber, outcomes>>

\* The end of the session
VARIABLES
    exportCalls,      \* exportData calls made by on_finish of initJsPsych
    exportResult,     \* how that call went ("none" before it)
    exportCallbacks,  \* the callbacks exportData has made
    endPracticeCalls, \* endPracticeMode() calls made by the timeline
    display,          \* what the page shows on top
    exportDom         \* the exporter's hidden form and iframe

endVars == <<exportCalls, exportResult, exportCallbacks, endPracticeCalls,
             display, exportDom>>

sessVars == <<flowVars, envVars, monVars, uiVars, dataVars, endVars>>

VARIABLES
    promptKind,        \* "none" | "button" (perception) | "form" (memory)
    promptNo,          \* number of the question prompt shown last
    promptOpen,        \* that prompt is on the screen, its trial unfinished
    timers,            \* prompts whose timeout timer is still pending
    firedTimers,       \* prompts whose timeout timer has run
    currentTimeoutId,  \* window.currentTimeoutId (0: never set)
    fields,            \* state of the form's number fields
    resolutions        \* what finished each prompt, in order

promptVars == <<promptKind, promptNo, promptOpen, timers, firedTimers,
                currentTimeoutId, fields, resolutions>>

VARIABLES
    exportVariant,  \* "none" | "perception" | "memory" | "traits": the exporter loaded
    allData,        \* jsPsych.data.get().values(): the trial data written so far
    presentations,  \* what happened in each presentation recorded (not program state)
    submissions,    \* the payloads handed to form.submit(), in order
    exportLog       \* per exportData call: its result and the callback it made

exportVars == <<exportVariant, allData, presentations, submissions, exportLog>>

VARIABLES
    zoomProbe       \* one run of detectZoomLevel: the ratio read, the value returned

probeVars == <<zoomProbe>>

vars == <<gridVars, assignVars, roundVars, sessVars, promptVars, exportVars,
          probeVars>>

----------------------------------------------------------------------------
(* Generic helpers *)

\* JavaScript's null, for the ratio variables (a ratio is never 0)
NULL == 0

Abs(x) == IF x < 0 THEN 0 - x ELSE x

Min(a, b) == IF a < b THEN a ELSE b

Range(s) == {s[i] : i \in 1..Len(s)}

\* Number of positions of s that satisfy Test
CountIf(s, Test(_)) == Cardinality({i \in 1..Len(s) : Test(s[i])})

----------------------------------------------------------------------------
(* jsPsych.randomization.shuffle                                           *)
(*                                                                         *)
(* Any permutation can come out of the shuffle.  The model draws the       *)
(* outcome from the affine permutations  i |-> a + s*i (mod n): offset a   *)
(* up to a bound, stride s coprime to every array length shuffled here     *)
(* (2, 4, 8, 12, 16).  Offset 0 with stride 1 is the identity.             *)

\* Largest offset of a drawn permutation (individuals, trials, rounds)
MaxOffset == 3

\* Largest offset of the permutation that selects a grid's individuals
MaxSelOffset == 1

\* Largest offset of a drawn permutation of the grid positions
MaxGridOffset == 0

Strides == {1, 5, 7}

ShuffleBy(arr, a, s) ==
    [i \in 1..Len(arr) |-> arr[((a + s * (i - 1)) % Len(arr)) + 1]]

ShuffleOutcomes(arr, maxOff) ==
    {ShuffleBy(arr, a, s) : a \in 0..Min(maxOff, Len(arr) - 1), s \in Strides}

----------------------------------------------------------------------------
(* STIMULI_CONFIG *)

Races == <<"asian", "black", "hispanic", "white">>

Ind(race, gender, num) == [race |-> race, gender |-> gender, num |-> num]

\* STIMULI_CONFIG.individuals, in the order of the source
Individuals ==
    << Ind("black", "male", "01"),    Ind("black", "male", "02"),
       Ind("black", "female", "01"),  Ind("black", "female", "02"),
       Ind("asian", "male", "01"),    Ind("asian", "male", "02"),
       Ind("asian", "female", "01"),  Ind("asian", "female", "02"),
       Ind("white", "male", "01"),    Ind("white", "male", "02"),
       Ind("white", "female", "01"),  Ind("white", "female", "02"),
       Ind("hispanic", "male", "01"), Ind("hispanic", "male", "02"),
       Ind("hispanic", "female", "01"), Ind("hispanic", "female", "02") >>

Sizes == {"big", "small"}

\* getImagePath: the parts of the file name, {race}_{gender}_{smile}_{id}_{size}.{ext}
getImagePath(individual, size, smile) ==
    << individual.race, individual.gender,
       IF smile THEN "smile" ELSE "nosmile",
       individual.num, size,
       IF size = "big" THEN "jpeg" ELSE "png" >>

----------------------------------------------------------------------------
(* generateGridForRound (memory experiment), in its two copies:            *)
(*   "grid8"  : 8 images, forcing threshold 6   (the experiment script)     *)
(*   "grid12" : 12 images, forcing threshold 10 (js/stimuli.js)             *)

TotalImages8 == 8
SmileCap8 == 6
TotalImages12 == 12
SmileCap12 == 10
\* "Ensure minimum of 2 smiling and 2 not-smiling"
MinEach == 2

GridVariants == {"grid8", "grid12"}

TotalImages(v) == IF v = "grid8" THEN TotalImages8 ELSE TotalImages12

SmileCap(v) == IF v = "grid8" THEN SmileCap8 ELSE SmileCap12

\* The outcomes of Math.random() < 0.5, one per selected individual
RandomBits(n) == [1..n -> BOOLEAN]

\* First pass: assign randomly but track counts, forcing at the threshold
RECURSIVE FirstPass(_, _, _, _, _, _)
FirstPass(n, cap, rand, i, smilingCount, notSmilingCount) ==
    IF i > n THEN <<>>
    ELSE LET smile == IF smilingCount >= cap THEN FALSE
                      ELSE IF notSmilingCount >= cap THEN TRUE
                      ELSE rand[i]
         IN  <<smile>> \o
             FirstPass(n, cap, rand, i + 1,
                       IF smile THEN smilingCount + 1 ELSE smilingCount,
                       IF smile THEN notSmilingCount ELSE notSmilingCount + 1)

\* for (i = 0; i < length && count < 2; i++) if (smile[i] = from) smile[i] = !from
RECURSIVE FlipUntil(_, _, _, _)
FlipUntil(smiles, from, i, count) ==
    IF i > Len(smiles) \/ count >= MinEach THEN smiles
    ELSE IF smiles[i] = from
         THEN FlipUntil([smiles EXCEPT ![i] = ~from], from, i + 1, count + 1)
         ELSE FlipUntil(smiles, from, i + 1, count)

\* The two repair blocks, in the order of the source
EnsureMinimum(smiles) ==
    LET smilingCount == CountIf(smiles, LAMBDA b : b)
        s1 == IF smilingCount < MinEach
              THEN FlipUntil(smiles, FALSE, 1, smilingCount)
              ELSE smiles
        notSmilingCount == CountIf(s1, LAMBDA b : ~b)
    IN  IF notSmilingCount < MinEach
        THEN FlipUntil(s1, TRUE, 1, notSmilingCount)
        ELSE s1

\* Mutant: every face gets the raw coin flip (no forcing, no repair)
AssignExpressionsUnbalanced(n, cap, rand) == [i \in 1..n |-> rand[i]]

\* The smile flag of each selected individual
AssignExpressions(n, cap, rand) ==
    EnsureMinimum(FirstPass(n, cap, rand, 1, 0, 0))

GridImage(individual, size, smile) ==
    [ individual_id |-> <<individual.race, individual.gender, individual.num>>,
      race       |-> individual.race,
      gender     |-> individual.gender,
      smile      |-> smile,
      size       |-> size,
      image_path |-> getImagePath(individual, size, smile) ]

\* Mutant: the counting loop starts at the second image
CompositionSkipsFirst(images) ==
    [ asian       |-> CountIf(SubSeq(images, 2, Len(images)), LAMBDA g : g.race = "asian"),
      black       |-> CountIf(SubSeq(images, 2, Len(images)), LAMBDA g : g.race = "black"),
      hispanic    |-> CountIf(SubSeq(images, 2, Len(images)), LAMBDA g : g.race = "hispanic"),
      white       |-> CountIf(SubSeq(images, 2, Len(images)), LAMBDA g : g.race = "white"),
      smiling     |-> CountIf(SubSeq(images, 2, Len(images)), LAMBDA g : g.smile),
      not_smiling |-> CountIf(SubSeq(images, 2, Len(images)), LAMBDA g : ~g.smile) ]

\* composition[...]++ over the built images
Composition(images) ==
    [ asian       |-> CountIf(images, LAMBDA g : g.race = "asian"),
      black       |-> CountIf(images, LAMBDA g : g.race = "black"),
      hispanic    |-> CountIf(images, LAMBDA g : g.race = "hispanic"),
      white       |-> CountIf(images, LAMBDA g : g.race = "white"),
      smiling     |-> CountIf(images, LAMBDA g : g.smile),
      not_smiling |-> CountIf(images, LAMBDA g : ~g.smile) ]

\* Mutant: the selection takes one image too few
SelectIndividualsShort(shuffledIndividuals, n) == SubSeq(shuffledIndividuals, 1, n - 1)

\* shuffledIndividuals.slice(0, n)
SelectIndividuals(shuffledIndividuals, n) == SubSeq(shuffledIndividuals, 1, n)

\* The grid images before the positions are shuffled
GridImages(v, size, shuffledIndividuals, rand) ==
    LET selected == SelectIndividuals(shuffledIndividuals, TotalImages(v))
        smiles   == AssignExpressions(Len(selected), SmileCap(v), rand)
    IN  [i \in 1..Len(selected) |-> GridImage(selected[i], size, smiles[i])]

\* generateGridForRound(size): the grid for one outcome of its random draws
generateGridForRound(v, size, shuffledIndividuals, rand, a, s) ==
    LET gridImages == GridImages(v, size, shuffledIndividuals, rand)
    IN  [ images      |-> ShuffleBy(gridImages, a, s),
          composition |-> Composition(gridImages),
          size        |-> size ]

NoGrid == [images |-> <<>>, composition |-> Composition(<<>>), size |-> "none"]

----------------------------------------------------------------------------
(* generatePracticeGridForRound (memory experiment, practice round) *)

PracticeInd(race, gender, num, hasSmile) ==
    [race |-> race, gender |-> gender, num |-> num, hasSmile |-> hasSmile]

\* STIMULI_CONFIG.practiceIndividuals, in the order of the source
PracticeIndividuals ==
    << PracticeInd("black", "male", "01", TRUE),
       PracticeInd("black", "female", "01", TRUE),
       PracticeInd("asian", "male", "01", FALSE),
       PracticeInd("asian", "female", "01", TRUE),
       PracticeInd("white", "male", "01", TRUE),
       PracticeInd("white", "female", "01", TRUE),
       PracticeInd("hispanic", "male", "01", FALSE),
       PracticeInd("hispanic", "female", "01", FALSE) >>

\* practiceIndividuals.filter(ind => ind.hasSmile)
CanSmile == SelectSeq(PracticeIndividuals, LAMBDA ind : ind.hasSmile)

\* practiceIndividuals.filter(ind => !ind.hasSmile)
CannotSmile == SelectSeq(PracticeIndividuals, LAMBDA ind : ~ind.hasSmile)

\* "aim for ~4 smiling total"
PracticeSmiling == 4

\* Every outcome of jsPsych.randomization.shuffle(canSmile), as a
\* permutation of the positions
CanSmileOrders == Permutations(1..Len(CanSmile))

\* Mutant: every individual that can smile does
NumSmilingAll(canSmile) == Len(canSmile)

\* numSmiling = Math.min(4, canSmile.length)
NumSmiling(canSmile) == Min(PracticeSmiling, Len(canSmile))

\* getPracticeImagePath: the file name parts under practiceImagePath
getPracticeImagePath(individual, size, smile) ==
    <<"practice_images">> \o getImagePath(individual, size, smile)

\* The assignments array: the shuffled canSmile group, the first numSmiling
\* of it smiling, then the cannotSmile group, not smiling
PracticeAssignments(order) ==
    LET shuffledCanSmile == [i \in 1..Len(CanSmile) |-> CanSmile[order[i]]]
        numSmiling       == NumSmiling(CanSmile)
    IN  [i \in 1..Len(CanSmile) |->
            [individual |-> shuffledCanSmile[i], smile |-> i <= numSmiling]]
        \o [i \in 1..Len(CannotSmile) |->
               [individual |-> CannotSmile[i], smile |-> FALSE]]

\* generatePracticeGridForRound(size): the grid for one outcome of its two
\* shuffles
generatePracticeGridForRound(size, order, a, s) ==
    LET assignments == PracticeAssignments(order)
        gridImages  ==
            [i \in 1..Len(assignments) |->
                [GridImage(assignments[i].individual, size, assignments[i].smile)
                 EXCEPT !.image_path =
                     getPracticeImagePath(assignments[i].individual, size,
                                          assignments[i].smile)]]
    IN  [ images      |-> ShuffleBy(gridImages, a, s),
          composition |-> Composition(gridImages),
          size        |-> size ]

\* The state when the page has loaded and no generator has run yet
Init ==
    /\ grid = NoGrid
    /\ gridVariant = "none"
    /\ assignment = <<>>
    /\ assignmentDone = FALSE
    /\ rounds = <<>>
    /\ mainExperiment = <<>>
    /\ experiment = "none"
    /\ exportVariant = "none"
    /\ allData = <<>>
    /\ presentations = <<>>
    /\ submissions = <<>>
    /\ exportLog = <<>>
    /\ promptKind = "none"
    /\ promptNo = 0
    /\ promptOpen = FALSE
    /\ timers = {}
    /\ firedTimers = {}
    /\ currentTimeoutId = 0
    /\ fields = <<>>
    /\ resolutions = <<>>
    /\ pc = "start"
    /\ cur = 0
    /\ choices = <<>>
    /\ trialFinished = FALSE
    /\ endMessage = "none"
    /\ dpr = 100
    /\ fullscreen = FALSE
    /\ fsRequest = FALSE
    /\ fsChangePending = FALSE
    /\ fsMonitoring = FALSE
    /\ zoomCheckAttempts = 0
    /\ zoomCheckBypassed = FALSE
    /\ initialDPR = NULL
    /\ approvedDPR = NULL
    /\ zoomChanges = <<>>
    /\ zoomCheckInterval = FALSE
    /\ resizeListener = FALSE
    /\ mqlDPR = NULL
    /\ experimentTerminatedDueToZoom = FALSE
    /\ zoomTrackingActive = FALSE
    /\ inPracticeMode = TRUE
    /\ lastWarnedDPR = NULL
    /\ experimentEnded = FALSE
    /\ fullscreenWarningShown = FALSE
    /\ trialNumber = 0
    /\ outcomes = <<>>
    /\ warningOverlay = FALSE
    /\ fsOverlay = FALSE
    /\ warnLog = <<>>
    /\ terminationOverlays = 0
    /\ zoomEndCalls = 0
    /\ progressBar = FALSE
    /\ exportCalls = 0
    /\ exportResult = "none"
    /\ exportCallbacks = <<>>
    /\ endPracticeCalls = 0
    /\ display = "timeline"
    /\ exportDom = "none"
    /\ zoomProbe = [dpr |-> 0, zoomLevel |-> 0, at100 |-> FALSE]

\* One call of generateGridForRound
GenerateGrid ==
    /\ gridVariant = "none"
    /\ \E v \in GridVariants, size \in Sizes :
       \E shuffled \in ShuffleOutcomes(Individuals, MaxSelOffset) :
       \E rand \in RandomBits(TotalImages(v)) :
       \E a \in 0..MaxGridOffset, s \in Strides :
           /\ grid' = generateGridForRound(v, size, shuffled, rand, a, s)
           /\ gridVariant' = v
    /\ UNCHANGED <<probeVars, assignVars, roundVars, sessVars, promptVars,
                   exportVars>>

\* One call of generatePracticeGridForRound
GeneratePracticeGrid ==
    /\ gridVariant = "none"
    /\ \E size \in Sizes, order \in CanSmileOrders :
       \E a \in 0..MaxGridOffset, s \in Strides :
           /\ grid' = generatePracticeGridForRound(size, order, a, s)
           /\ gridVariant' = "practice"
    /\ UNCHANGED <<probeVars, assignVars, roundVars, sessVars, promptVars,
                   exportVars>>

GridNext == GenerateGrid \/ GeneratePracticeGrid

SpecGrid == Init /\ [][GridNext]_vars

----------------------------------------------------------------------------
(* Claims about generateGridForRound *)

GridGenerated == gridVariant \in GridVariants

RaceCountIn(g, r) == CountIf(g.images, LAMBDA img : img.race = r)

\* C7: every generated grid contains at least one face of each of the four
\* races (asian, black, hispanic, white).
C7_EveryRaceInGrid ==
    GridGenerated => \A i \in 1..Len(Races) : RaceCountIn(grid, Races[i]) >= 1

\* C8: every generated grid, in the 8-image and in the 12-image variant, has
\* at least 2 smiling and at least 2 non-smiling faces, whatever the coin
\* flips of the expression assignment were; the stored composition agrees
\* with the displayed images and the grid is complete.
C8_MinSmilingAndNotSmiling ==
    GridGenerated =>
        /\ Len(grid.images) = TotalImages(gridVariant)
        /\ CountIf(grid.images, LAMBDA img : img.smile) >= 2
        /\ CountIf(grid.images, LAMBDA img : ~img.smile) >= 2
        /\ grid.composition.smiling >= 2
        /\ grid.composition.not_smiling >= 2

\* C8 witness: a 12-image grid in which the forcing branch decided the last
\* faces (10 smiling, 2 not smiling), and likewise an 8-image grid is reached.
C8_Witness ==
    /\ gridVariant = "grid12"
    /\ grid.composition.smiling = 10
    /\ grid.composition.not_smiling = 2

----------------------------------------------------------------------------
(* generateStimulusAssignment (perception experiment, js/stimuli.js) *)

\* for (let i = 0; i < 16; i++)
TrialCount == 16
\* Math.floor(i / 4): four individuals per condition
PerCondition == 4

\* The 4 conditions with 4 slots each
TrialConditions ==
    << [size |-> "big",   smile |-> TRUE],  [size |-> "big",   smile |-> FALSE],
       [size |-> "small", smile |-> TRUE],  [size |-> "small", smile |-> FALSE] >>

\* Mutant: the chunks are one individual too long
ConditionIndexSkewed(i) == Min(i \div (PerCondition + 1), Len(TrialConditions) - 1)

\* conditionIndex = Math.floor(i / 4), for the 0-based loop index i
ConditionIndex(i) == i \div PerCondition

\* trials.push({...}) for the 0-based loop index i
StimulusTrial(shuffledIndividuals, i) ==
    LET condition  == TrialConditions[ConditionIndex(i) + 1]
        individual == shuffledIndividuals[i + 1]
    IN  [ individual_id |-> <<individual.race, individual.gender, individual.num>>,
          race       |-> individual.race,
          gender     |-> individual.gender,
          size       |-> condition.size,
          smile      |-> condition.smile,
          image_path |-> getImagePath(individual, condition.size, condition.smile) ]

\* generateStimulusAssignment(): the trials for one outcome of the two shuffles
generateStimulusAssignment(shuffledIndividuals, a, s) ==
    LET trials == [k \in 1..TrialCount |-> StimulusTrial(shuffledIndividuals, k - 1)]
    IN  ShuffleBy(trials, a, s)

\* One call of generateStimulusAssignment
GenerateAssignment ==
    /\ ~assignmentDone
    /\ \E shuffled \in ShuffleOutcomes(Individuals, MaxOffset) :
       \E a \in 0..MaxOffset, s \in Strides :
           assignment' = generateStimulusAssignment(shuffled, a, s)
    /\ assignmentDone' = TRUE
    /\ UNCHANGED <<probeVars, gridVars, roundVars, sessVars, promptVars, exportVars>>

AssignNext == GenerateAssignment

SpecAssign == Init /\ [][AssignNext]_vars

IndividualId(ind) == <<ind.race, ind.gender, ind.num>>

\* C9: generateStimulusAssignment returns 16 trials; each of the 16
\* individuals appears exactly once; each size x expression combination
\* appears exactly 4 times (so 8 big / 8 small and 8 smiling / 8 not smiling).
C9_BalancedAssignment ==
    assignmentDone =>
        /\ Len(assignment) = 16
        /\ \A k \in 1..Len(Individuals) :
              CountIf(assignment,
                      LAMBDA t : t.individual_id = IndividualId(Individuals[k])) = 1
        /\ \A sz \in Sizes, sm \in BOOLEAN :
              CountIf(assignment, LAMBDA t : t.size = sz /\ t.smile = sm) = 4
        /\ CountIf(assignment, LAMBDA t : t.size = "big") = 8
        /\ CountIf(assignment, LAMBDA t : t.size = "small") = 8
        /\ CountIf(assignment, LAMBDA t : t.smile) = 8
        /\ CountIf(assignment, LAMBDA t : ~t.smile) = 8

\* C9 witness: an assignment was returned whose presentation order differs
\* from the order in which the trials were built (the second trial shown is
\* a small one) and whose individuals were shuffled.
C9_Witness ==
    /\ assignmentDone
    /\ assignment[2].size = "small"
    /\ assignment[1].race # "black"

----------------------------------------------------------------------------
(* generateAllRounds, createRound and createMainExperiment (memory experiment) *)

\* for (let rep = 0; rep < 3; rep++)
Repetitions == 3

\* The 4 conditions, each repeated 3 times
RoundConditions ==
    << [size |-> "big",   questionType |-> "race"],
       [size |-> "big",   questionType |-> "smile"],
       [size |-> "small", questionType |-> "race"],
       [size |-> "small", questionType |-> "smile"] >>

\* Mutant: the repetition loop runs once too often (rep <= 3)
RoundsInOrderOneMore ==
    [k \in 1..(Len(RoundConditions) * (Repetitions + 1)) |->
        [ size         |-> RoundConditions[((k - 1) \div (Repetitions + 1)) + 1].size,
          questionType |-> RoundConditions[((k - 1) \div (Repetitions + 1)) + 1].questionType,
          repetition   |-> ((k - 1) % (Repetitions + 1)) + 1 ]]

\* The nested loops: for each condition, rounds.push for rep = 0, 1, 2
RoundsInOrder ==
    [k \in 1..(Len(RoundConditions) * Repetitions) |->
        [ size         |-> RoundConditions[((k - 1) \div Repetitions) + 1].size,
          questionType |-> RoundConditions[((k - 1) \div Repetitions) + 1].questionType,
          repetition   |-> ((k - 1) % Repetitions) + 1 ]]

\* generateAllRounds(): the rounds for one outcome of the shuffle
generateAllRounds(a, s) == ShuffleBy(RoundsInOrder, a, s)

SmileInputs == <<"smiling", "not_smiling">>

\* The random draws of one createRound call
RoundDraws ==
    [ shuffled        : ShuffleOutcomes(Individuals, 0),
      rand            : {[i \in 1..TotalImages8 |-> b] : b \in BOOLEAN},
      posStride       : Strides,
      canSmileOrder   : {[i \in 1..Len(CanSmile) |-> i]},
      raceInputOrder  : ShuffleOutcomes(Races, 0),
      smileInputOrder : ShuffleOutcomes(SmileInputs, 1) ]

\* grid.images.map(img => `${img.individual_id}:${smile|nosmile}`)
GridOrder(g) ==
    [i \in 1..Len(g.images) |->
        <<g.images[i].individual_id,
          IF g.images[i].smile THEN "smile" ELSE "nosmile">>]

\* createRound after the grid g has been generated: the order strings, the
\* stored round data and the timeline
RoundWithGrid(roundConfig, isPractice, g, d) ==
    LET inputOrder == IF roundConfig.questionType = "race"
                      THEN d.raceInputOrder ELSE d.smileInputOrder
    IN  [ roundConfig   |-> roundConfig,
          baseRoundData |->
            [ round_number   |-> IF isPractice THEN "practice" ELSE "null",
              size_condition |-> roundConfig.size,
              question_type  |-> roundConfig.questionType,
              is_practice    |-> isPractice,
              grid_order     |-> GridOrder(g),
              input_order    |-> inputOrder,
              actual         |-> g.composition ],
          timeline      |-> << "preRoundInstruction", "gridDisplay", "fixation",
                               roundConfig.questionType, "recordData" >> ]

\* createRound(roundConfig, isPractice): the presentation built for one
\* round, on the practice grid for the practice round
createRound(roundConfig, isPractice, d) ==
    RoundWithGrid(roundConfig, isPractice,
                  IF isPractice
                  THEN generatePracticeGridForRound(roundConfig.size,
                                                    d.canSmileOrder, 0,
                                                    d.posStride)
                  ELSE generateGridForRound("grid8", roundConfig.size,
                                            d.shuffled, d.rand, 0, d.posStride),
                  d)

\* createMainExperiment(): one createRound per round of generateAllRounds
createMainExperiment(rs, d) ==
    [k \in 1..Len(rs) |-> createRound(rs[k], FALSE, d)]

\* The page builds the main block once, when the script is loaded
CreateMainExperiment ==
    /\ rounds = <<>>
    /\ \E a \in 0..MaxOffset, s \in Strides, d \in RoundDraws :
          /\ rounds' = generateAllRounds(a, s)
          /\ mainExperiment' = createMainExperiment(rounds', d)
    /\ UNCHANGED <<probeVars, gridVars, assignVars, sessVars, promptVars, exportVars>>

RoundsNext == CreateMainExperiment

SpecRounds == Init /\ [][RoundsNext]_vars

\* C10: generateAllRounds returns exactly 12 rounds; each size x
\* question-type combination appears exactly 3 times (6 big / 6 small,
\* 6 race / 6 smile); createMainExperiment builds exactly one presentation
\* per returned round, in the same order and for that round's condition.
C10_BalancedRounds ==
    rounds # <<>> =>
        /\ Len(rounds) = 12
        /\ \A sz \in Sizes, q \in {"race", "smile"} :
              CountIf(rounds, LAMBDA r : r.size = sz /\ r.questionType = q) = 3
        /\ CountIf(rounds, LAMBDA r : r.size = "big") = 6
        /\ CountIf(rounds, LAMBDA r : r.size = "small") = 6
        /\ CountIf(rounds, LAMBDA r : r.questionType = "race") = 6
        /\ CountIf(rounds, LAMBDA r : r.questionType = "smile") = 6
        /\ Len(mainExperiment) = Len(rounds)
        /\ \A k \in 1..Len(rounds) :
              /\ mainExperiment[k].roundConfig = rounds[k]
              /\ mainExperiment[k].baseRoundData.size_condition = rounds[k].size
              /\ mainExperiment[k].baseRoundData.question_type = rounds[k].questionType
              /\ mainExperiment[k].baseRoundData.is_practice = FALSE

\* C10 witness: the main block was built from a shuffled round list (a big
\* round, then a smile round, then a small round) and holds its presentations.
C10_Witness ==
    /\ Len(rounds) = 12
    /\ Len(mainExperiment) = 12
    /\ rounds[1].size = "big"
    /\ rounds[2].questionType = "smile"
    /\ rounds[3].size = "small"

----------------------------------------------------------------------------
(* The session: display check, zoom monitor, timeline (both experiments)   *)

\* Main-block presentations run by the model (16 trials / 12 rounds in the code)
MainTrials == 2
\* Entries the model lets zoomChanges hold
MaxZoomChanges == 3
\* Iterations of the display-check loop the model follows
MaxAttempts == 3

\* Ratios the browser reports: 100% zoom, a zoom inside the 5-point
\* tolerance of the display check, and a zoom outside it
DPRValues == {100, 104, 125}

Experiments == {"perception", "memory"}

\* createTrial / createRound: the screens of one presentation, before recordData
PresentationScreens(e) ==
    IF e = "perception"
    THEN <<"imageDisplay", "fixation", "question1", "question2">>
    ELSE <<"preRoundInstruction", "gridDisplay", "fixation", "question">>

\* Screens ended by trial_duration alone (choices: "NO_KEYS")
TimedScreens == {"imageDisplay", "gridDisplay", "fixation"}

QuestionScreens == {"question1", "question2", "question"}

\* Screens of the timeline ended by a button only
ButtonScreens == {"displayRequirementsIntro", "welcome", "demographics",
                  "instructions", "practiceIntro", "preRoundInstruction"}

\* Mutant: any difference counts as a deviation
DeviatesAtAll(a, b) == Abs(a - b) > 0

\* Math.abs(a - b) > 0.01
Deviates(a, b) == Abs(a - b) > 1

\* detectZoomLevel: Math.round((dpr / baseDPR) * 100), dpr in hundredths
detectZoomLevel(d) ==
    LET baseDPR == IF d >= 190 /\ d <= 210 THEN 2
                   ELSE IF d >= 290 /\ d <= 310 THEN 3
                   ELSE IF d >= 390 /\ d <= 410 THEN 2
                   ELSE IF d > 210 /\ d < 290 THEN 2
                   ELSE IF d > 310 /\ d < 390 THEN 2
                   ELSE 1
    IN  (2 * d + baseDPR) \div (2 * baseDPR)

\* Mutant: a tolerance of 30 points
isZoomAt100Loose(d) == detectZoomLevel(d) >= 100 - 30 /\ detectZoomLevel(d) <= 100 + 30

\* isZoomAt100(tolerance = 5)
isZoomAt100(d) == detectZoomLevel(d) >= 100 - 5 /\ detectZoomLevel(d) <= 100 + 5

\* zoomCheck.choices, evaluated when the screen is rendered
ZoomCheckChoices(attempts, d, fs) ==
    LET zoomOk == isZoomAt100(d)
        showBypass == attempts >= 3 /\ ~zoomOk /\ fs
    IN  IF zoomOk /\ fs THEN <<"Continue">>
        ELSE IF ~fs THEN <<"Re-enter Fullscreen", "Check Again">>
        ELSE IF showBypass THEN <<"Check Again", "Proceed Anyway">>
        ELSE <<"Check Again">>

\* zoomChanges.push({...}) (the timestamp is left out)
ZoomChangeEntry ==
    [ approved_dpr  |-> approvedDPR,
      current_dpr   |-> dpr,
      detected_zoom |-> dpr ]

\* Mutant: the check also stands down once the debrief screen is shown
CheckRunsUntilDebrief ==
    /\ zoomTrackingActive /\ ~experimentEnded /\ ~experimentTerminatedDueToZoom
    /\ pc # "debrief"

\* checkForZoomChange passes its first line
CheckRuns == zoomTrackingActive /\ ~experimentEnded /\ ~experimentTerminatedDueToZoom

\* Mutant: a ratio already warned about is not a deviation any more
DeviationAtNewRatio ==
    /\ CheckRuns /\ approvedDPR # NULL /\ Deviates(dpr, approvedDPR)
    /\ (lastWarnedDPR = NULL \/ Deviates(dpr, lastWarnedDPR))

\* ... and finds the ratio off the approved one
Deviation == CheckRuns /\ approvedDPR # NULL /\ Deviates(dpr, approvedDPR)

\* ... during practice, at a ratio other than the last warned one
Warns ==
    Deviation /\ inPracticeMode
              /\ (lastWarnedDPR = NULL \/ Deviates(dpr, lastWarnedDPR))

\* Mutant: a deviation terminates in practice as well
TerminatesInPractice == Deviation

\* ... after practice
Terminates == Deviation /\ ~inPracticeMode

\* Mutant: the warning branch forgets  lastWarnedDPR = currentDPR
LastWarnedAfterWarningStale == lastWarnedDPR

\* lastWarnedDPR = currentDPR
LastWarnedAfterWarning == dpr

\* How one exportData call can go: no URL configured, form.submit() done, or
\* an exception inside the try block before the form is submitted
ExportResults == {"unconfigured", "sent", "threw"}

\* Mutant: the failure is reported through both callbacks
CallbacksOfBoth(result) ==
    IF result = "sent" THEN <<"onComplete">> ELSE <<"onError", "onComplete">>

\* exportData: the callbacks made for a result
CallbacksOf(result) ==
    IF result = "sent" THEN <<"onComplete">> ELSE <<"onError">>

\* sendToGoogleSheets: document.body.appendChild(iframe), appendChild(form),
\* form.submit(), and the 5 s cleanup timer set
DomAfterSubmit(result) == IF result = "sent" THEN "attached" ELSE "none"

\* The current trial's on_finish throws when jsPsych.endExperiment finishes it
\* with no response: raceOptions[undefined].toLowerCase() (perception questions)
OnFinishThrows == experiment = "perception" /\ pc \in QuestionScreens

\* Mutant: the experiment finishes but the screen on display stays live
OnFinishKeepsScreen ==
    /\ experimentEnded' = TRUE
    /\ fullscreen' = FALSE
    /\ fsChangePending' = (fsChangePending \/ (fullscreen /\ fsMonitoring))
    /\ exportCalls' = Min(exportCalls + 1, 1)
    /\ \E result \in ExportResults :
          /\ exportResult' = result
          /\ exportDom' = DomAfterSubmit(result)
    /\ pc' = pc

\* initJsPsych on_finish, up to the await: the flag, the fullscreen exit, the
\* call of exportData (which runs up to and including form.submit())
OnFinish ==
    /\ experimentEnded' = TRUE
    /\ fullscreen' = FALSE
    /\ fsChangePending' = (fsChangePending \/ (fullscreen /\ fsMonitoring))
    /\ exportCalls' = exportCalls + 1
    /\ \E result \in ExportResults :
          /\ exportResult' = result
          /\ exportDom' = DomAfterSubmit(result)
    /\ pc' = "finished"

\* Mutant: end_message is stored but the timeline is not ended, the next
\* screen follows
endExperimentContinues(message) ==
    /\ endMessage' = message
    /\ pc' = IF pc = "consent" THEN "demographics" ELSE pc
    /\ UNCHANGED <<trialFinished, experimentEnded, fullscreen, fsChangePending,
                   exportCalls, exportResult, exportDom>>

\* jsPsych.endExperiment(message): the timeline is ended, the current trial
\* finished (its on_finish runs) and, unless that throws, the experiment
\* finishes (on_finish of initJsPsych runs)
endExperiment(message) ==
    /\ endMessage' = message
    /\ IF OnFinishThrows
       THEN /\ trialFinished' = TRUE
            /\ UNCHANGED <<pc, experimentEnded, fullscreen, fsChangePending,
                           exportCalls, exportResult, exportDom>>
       ELSE /\ OnFinish
            /\ UNCHANGED trialFinished

\* Mutant: the flag is never set
terminateWithoutFlag ==
    /\ experimentTerminatedDueToZoom' = experimentTerminatedDueToZoom
    /\ zoomCheckInterval' = FALSE
    /\ terminationOverlays' = terminationOverlays + 1
    /\ zoomEndCalls' = zoomEndCalls + 1
    /\ display' = "zoomTermination"
    /\ endExperiment("zoom")

\* terminateExperimentDueToZoom, past its guard
terminateExperimentDueToZoom ==
    /\ experimentTerminatedDueToZoom' = TRUE
    /\ zoomCheckInterval' = FALSE
    /\ terminationOverlays' = terminationOverlays + 1
    /\ zoomEndCalls' = zoomEndCalls + 1
    /\ display' = "zoomTermination"
    /\ endExperiment("zoom")

\* checkForZoomChange()
checkForZoomChange ==
    /\ zoomChanges' = IF Deviation THEN Append(zoomChanges, ZoomChangeEntry)
                      ELSE zoomChanges
    /\ lastWarnedDPR' = IF Warns THEN LastWarnedAfterWarning ELSE lastWarnedDPR
    /\ warningOverlay' = (warningOverlay \/ Warns)
    /\ warnLog' = IF Warns THEN Append(warnLog, dpr) ELSE warnLog
    /\ IF Terminates /\ ~experimentTerminatedDueToZoom
       THEN terminateExperimentDueToZoom
       ELSE UNCHANGED <<experimentTerminatedDueToZoom, zoomCheckInterval,
                        terminationOverlays, zoomEndCalls, endMessage,
                        trialFinished, pc, experimentEnded, fullscreen,
                        fsChangePending, exportCalls, exportResult, exportDom, display>>

\* What a run of checkForZoomChange never touches
CheckFrame ==
    UNCHANGED <<probeVars, gridVars, assignVars, roundVars, promptVars, exportVars,
                exportCallbacks, endPracticeCalls, experiment, cur, choices, dpr,
                fsRequest, fsMonitoring, zoomCheckAttempts, zoomCheckBypassed,
                initialDPR, approvedDPR, resizeListener,
                zoomTrackingActive, inPracticeMode, fullscreenWarningShown,
                fsOverlay, progressBar, trialNumber, outcomes>>

\* The model follows a run only while zoomChanges has room for its entry
RoomForEntry == Deviation => Len(zoomChanges) < MaxZoomChanges

\* window 'resize' event
ResizeEvent ==
    /\ resizeListener
    /\ RoomForEntry
    /\ checkForZoomChange
    /\ UNCHANGED mqlDPR
    /\ CheckFrame

\* matchMedia 'change' event: the check, then the listener is set up again
\* for the ratio of the moment
MediaQueryChange ==
    /\ mqlDPR # NULL
    /\ dpr # mqlDPR
    /\ RoomForEntry
    /\ checkForZoomChange
    /\ mqlDPR' = dpr
    /\ CheckFrame

\* setInterval(checkForZoomChange, 500)
PollTick ==
    /\ zoomCheckInterval
    /\ RoomForEntry
    /\ checkForZoomChange
    /\ UNCHANGED mqlDPR
    /\ CheckFrame

\* Mutant: no early return, the ratio of the moment is captured again
initZoomTrackingUnguarded ==
    /\ zoomTrackingActive' = TRUE
    /\ approvedDPR' = dpr
    /\ initialDPR' = dpr
    /\ resizeListener' = TRUE
    /\ mqlDPR' = dpr
    /\ zoomCheckInterval' = TRUE

\* initZoomTracking()
initZoomTracking ==
    IF zoomTrackingActive
    THEN UNCHANGED <<zoomTrackingActive, approvedDPR, initialDPR, resizeListener,
                     mqlDPR, zoomCheckInterval>>
    ELSE /\ zoomTrackingActive' = TRUE
         /\ approvedDPR' = dpr
         /\ initialDPR' = dpr
         /\ resizeListener' = TRUE
         /\ mqlDPR' = dpr
         /\ zoomCheckInterval' = TRUE

\* Mutant: the practice flag is left as it is
endPracticeModeNoop == inPracticeMode' = inPracticeMode

\* endPracticeMode()
endPracticeMode == inPracticeMode' = FALSE

----------------------------------------------------------------------------
(* The timeline *)

\* What a step of the timeline that only moves on leaves alone
TimelineFrame ==
    UNCHANGED <<probeVars, gridVars, assignVars, roundVars, promptVars, exportVars, endVars, experiment, choices,
                trialFinished, endMessage, envVars, monVars, uiVars, dataVars>>

\* jsPsych.run(timeline) of one of the two experiment pages
RunExperiment ==
    /\ pc = "start"
    /\ \E e \in Experiments : experiment' = e
    /\ pc' = "preload"
    /\ UNCHANGED <<probeVars, gridVars, assignVars, roundVars, promptVars, exportVars, endVars, cur, choices, trialFinished,
                   endMessage, envVars, monVars, uiVars, dataVars>>

\* preload: continue_after_error, so the screen always ends
FinishPreload ==
    /\ pc = "preload"
    /\ pc' = "displayRequirementsIntro"
    /\ UNCHANGED cur
    /\ TimelineFrame

\* The screen after a screen with one button and no on_finish
AfterButton(screen) ==
    CASE screen = "displayRequirementsIntro" -> "enterFullscreen"
      [] screen = "welcome"                  -> "consent"
      [] screen = "demographics"             -> "instructions"
      [] screen = "instructions"             -> "practiceIntro"
      [] screen = "practiceIntro"            -> PresentationScreens(experiment)[1]
      [] screen = "preRoundInstruction"      -> "gridDisplay"

\* The participant presses the button (or submits the form) of such a screen
ClickButton ==
    /\ pc \in ButtonScreens
    /\ ~trialFinished
    /\ pc' = AfterButton(pc)
    /\ UNCHANGED cur
    /\ TimelineFrame

\* enterFullscreen: the button requests fullscreen, on_finish starts the
\* fullscreen monitoring, then the display check is rendered
\* (zoomCheck.stimulus counts the attempt, zoomCheck.choices are fixed)
EnterFullscreenClick ==
    /\ pc = "enterFullscreen"
    /\ \E granted \in BOOLEAN :
          /\ fullscreen' = granted
          /\ choices' = ZoomCheckChoices(zoomCheckAttempts + 1, dpr, granted)
    /\ fsMonitoring' = TRUE
    /\ zoomCheckAttempts' = zoomCheckAttempts + 1
    /\ pc' = "zoomCheck"
    /\ UNCHANGED <<probeVars, gridVars, assignVars, roundVars, promptVars, exportVars, endVars, experiment, cur,
                   trialFinished, endMessage, dpr, fsRequest, fsChangePending,
                   zoomCheckBypassed, initialDPR, approvedDPR, zoomChanges,
                   zoomCheckInterval, resizeListener, mqlDPR,
                   experimentTerminatedDueToZoom, zoomTrackingActive,
                   inPracticeMode, lastWarnedDPR, uiVars, dataVars>>

\* Mutant: 'Proceed Anyway' is honoured whatever the attempt counter
BypassGrantedEarly(response) ==
    /\ ~isZoomAt100(dpr)
    /\ fullscreen
    /\ response = 1

\* zoomCheck.on_finish: showBypass && data.response === 1, with the zoom and
\* fullscreen state of the moment the click is processed
BypassGranted(response) ==
    /\ zoomCheckAttempts >= 3
    /\ ~isZoomAt100(dpr)
    /\ fullscreen
    /\ response = 1

\* Mutant: the loop trusts the check made when the screen was rendered
LoopExitsAsRendered(response) ==
    BypassGranted(response) \/ choices = <<"Continue">>

\* displayCheckLoop.loop_function returns false: zoom_bypassed, or zoom_ok and
\* fullscreen_ok as on_finish stored them
LoopExits(response) ==
    BypassGranted(response) \/ (isZoomAt100(dpr) /\ fullscreen)

\* A button of the display check is pressed: zoomCheck.on_finish, then
\* displayCheckLoop.loop_function, then either the next iteration is rendered
\* or the call-function trial runs initZoomTracking and welcome is shown
ZoomCheckClick ==
    /\ pc = "zoomCheck"
    /\ \E i \in 1..Len(choices) :
          LET response   == i - 1
              bypass     == BypassGranted(response)
              leave      == LoopExits(response)
          IN  /\ zoomCheckBypassed' = (zoomCheckBypassed \/ bypass)
              /\ fsRequest' = (fsRequest \/ (response = 0 /\ ~fullscreen))
              /\ IF leave
                 THEN /\ initZoomTracking
                      /\ pc' = "welcome"
                      /\ choices' = <<>>
                      /\ UNCHANGED zoomCheckAttempts
                 ELSE /\ zoomCheckAttempts < MaxAttempts
                      /\ zoomCheckAttempts' = zoomCheckAttempts + 1
                      /\ choices' = ZoomCheckChoices(zoomCheckAttempts + 1, dpr,
                                                     fullscreen)
                      /\ UNCHANGED <<pc, zoomTrackingActive, approvedDPR,
                                     initialDPR, resizeListener, mqlDPR,
                                     zoomCheckInterval>>
    /\ UNCHANGED <<probeVars, gridVars, assignVars, roundVars, promptVars, exportVars, endVars, experiment, cur,
                   trialFinished, endMessage, dpr, fullscreen, fsChangePending,
                   fsMonitoring, zoomChanges, experimentTerminatedDueToZoom,
                   inPracticeMode, lastWarnedDPR, uiVars, dataVars>>

\* A further call of initZoomTracking (the timeline makes one; the function is
\* global and guards itself against more)
InitZoomTrackingAgain ==
    /\ zoomTrackingActive
    /\ pc # "closed"
    /\ initZoomTracking
    /\ UNCHANGED <<probeVars, gridVars, assignVars, roundVars, promptVars, exportVars, endVars, flowVars, envVars,
                   zoomCheckAttempts, zoomCheckBypassed, zoomChanges,
                   experimentTerminatedDueToZoom, inPracticeMode, lastWarnedDPR,
                   uiVars, dataVars>>

\* consent, 'I Agree'
ConsentAgree ==
    /\ pc = "consent"
    /\ pc' = "demographics"
    /\ UNCHANGED cur
    /\ TimelineFrame

\* consent, 'I Do Not Agree': on_finish ends the experiment
ConsentDecline ==
    /\ pc = "consent"
    /\ endExperiment("declined")
    /\ UNCHANGED <<probeVars, gridVars, assignVars, roundVars, promptVars, exportVars,
                   exportCallbacks, endPracticeCalls, display, experiment, cur, choices,
                   dpr, fsRequest, fsMonitoring, monVars, uiVars, trialNumber,
                   outcomes>>

\* Position of a screen within its presentation
ScreenIndex(screen) ==
    CHOOSE k \in 1..Len(PresentationScreens(experiment)) :
        PresentationScreens(experiment)[k] = screen

\* Mutant: the counter is incremented for the practice presentation too
recordDataCountsPractice ==
    /\ trialNumber' = trialNumber + 1
    /\ outcomes' = Append(outcomes,
                          [ is_practice  |-> (cur = 0),
                            trial_number |-> IF cur = 0 THEN "practice"
                                             ELSE trialNumber + 1 ])
    /\ IF cur = 0
       THEN pc' = "practiceFeedback" /\ UNCHANGED cur
       ELSE IF cur < MainTrials
            THEN pc' = PresentationScreens(experiment)[1] /\ cur' = cur + 1
            ELSE pc' = "debrief" /\ UNCHANGED cur

\* recordData (call-function trial after the last question), then the screen
\* the timeline shows next
recordData ==
    /\ trialNumber' = IF cur = 0 THEN trialNumber ELSE trialNumber + 1
    /\ outcomes' = Append(outcomes,
                          [ is_practice  |-> (cur = 0),
                            trial_number |-> IF cur = 0 THEN "practice"
                                             ELSE trialNumber + 1 ])
    /\ IF cur = 0
       THEN pc' = "practiceFeedback" /\ UNCHANGED cur
       ELSE IF cur < MainTrials
            THEN pc' = PresentationScreens(experiment)[1] /\ cur' = cur + 1
            ELSE pc' = "debrief" /\ UNCHANGED cur

\* A presentation screen ends: the next screen of the presentation, or the
\* record step after the last one
LeaveScreen ==
    /\ IF ScreenIndex(pc) < Len(PresentationScreens(experiment))
       THEN /\ pc' = PresentationScreens(experiment)[ScreenIndex(pc) + 1]
            /\ UNCHANGED <<cur, trialNumber, outcomes>>
       ELSE recordData
    /\ UNCHANGED <<probeVars, gridVars, assignVars, roundVars, promptVars, exportVars, endVars, experiment, choices,
                   trialFinished, endMessage, envVars, monVars, uiVars,
                   experimentEnded>>

\* trial_duration of a display-only screen runs out
ScreenTimeout ==
    /\ pc \in TimedScreens
    /\ ~trialFinished
    /\ LeaveScreen

\* The participant answers the question on the screen
AnswerQuestion ==
    /\ pc \in QuestionScreens
    /\ ~trialFinished
    /\ LeaveScreen

\* The question's timeout ends the screen (10 s trial_duration in the
\* perception experiment, the 30 s timer pressing Submit in the memory one)
QuestionTimeout ==
    /\ pc \in QuestionScreens
    /\ ~trialFinished
    /\ LeaveScreen

\* Mutant: the call-function trial between practice and main block leaves
\* out endPracticeMode()
startMainBlockStillPractice ==
    /\ UNCHANGED <<inPracticeMode, endPracticeCalls>>
    /\ progressBar' = TRUE

\* The call-function trial between practice and main block:
\* endPracticeMode(), createCustomProgressBar(), updateProgressBar(0)
startMainBlock ==
    /\ endPracticeMode
    /\ endPracticeCalls' = endPracticeCalls + 1
    /\ progressBar' = TRUE

\* practiceFeedback, then the call-function trial: endPracticeMode(),
\* createCustomProgressBar(), updateProgressBar(0); the first main
\* presentation starts
PracticeFeedbackClick ==
    /\ pc = "practiceFeedback"
    /\ startMainBlock
    /\ pc' = PresentationScreens(experiment)[1]
    /\ cur' = 1
    /\ UNCHANGED <<probeVars, gridVars, assignVars, roundVars, promptVars, exportVars,
                   exportCalls, exportResult, exportDom, exportCallbacks, display, experiment, choices,
                   trialFinished, endMessage, envVars, zoomCheckAttempts,
                   zoomCheckBypassed, initialDPR, approvedDPR, zoomChanges,
                   zoomCheckInterval, resizeListener, mqlDPR,
                   experimentTerminatedDueToZoom, zoomTrackingActive,
                   lastWarnedDPR, fullscreenWarningShown, warningOverlay,
                   fsOverlay, warnLog, terminationOverlays, zoomEndCalls,
                   dataVars>>

\* debrief, 'Finish': the timeline is complete, on_finish of initJsPsych runs
DebriefClick ==
    /\ pc = "debrief"
    /\ OnFinish
    /\ UNCHANGED <<probeVars, gridVars, assignVars, roundVars, promptVars, exportVars,
                   exportCallbacks, endPracticeCalls, display, experiment, cur, choices,
                   trialFinished, endMessage, dpr, fsRequest, fsMonitoring,
                   monVars, uiVars, trialNumber, outcomes>>

\* What jsPsych's done_handler leaves on the page: end_message is written
\* into the display element, underneath an overlay appended to the body
DisplayAfterEndMessage ==
    IF display = "zoomTermination" THEN display
    ELSE IF endMessage = "declined" THEN "declinedMessage"
    ELSE IF endMessage = "zoom" THEN "zoomMessage"
    ELSE display

\* await exportData(...) settles: exportData makes its callback, the
\* one-second timer is started, on_finish returns and jsPsych's done_handler
\* renders end_message
ExportSettles ==
    /\ pc = "finished"
    /\ pc' = "ended"
    /\ exportCallbacks' = exportCallbacks \o CallbacksOf(exportResult)
    /\ display' = DisplayAfterEndMessage
    /\ UNCHANGED <<probeVars, gridVars, assignVars, roundVars, promptVars, exportVars,
                   exportCalls, exportResult, exportDom, endPracticeCalls, experiment,
                   cur, choices, trialFinished, endMessage, envVars, monVars,
                   uiVars, dataVars>>

\* document.body.innerHTML = ...: every child of the body is detached
DomAfterBodyReplaced(dom) == IF dom = "attached" THEN "detached" ELSE dom

\* The one-second timer: window.close(), document.body.innerHTML replaced
\* (every overlay goes with the old body)
CloseTimer ==
    /\ pc = "ended"
    /\ pc' = "closed"
    /\ warningOverlay' = FALSE
    /\ fsOverlay' = FALSE
    /\ \E closes \in BOOLEAN :
          display' = IF closes THEN "windowClosed" ELSE "thankYou"
    /\ exportDom' = DomAfterBodyReplaced(exportDom)
    /\ UNCHANGED <<probeVars, gridVars, assignVars, roundVars, promptVars, exportVars,
                   exportCalls, exportResult, exportCallbacks,
                   endPracticeCalls, experiment, cur, choices,
                   trialFinished, endMessage, envVars, monVars,
                   fullscreenWarningShown, warnLog, terminationOverlays,
                   zoomEndCalls, progressBar, dataVars>>

\* document.body.removeChild(x): removes a child of the body, throws
\* NotFoundError for a node that is not one (the second call is then skipped)
DomAfterCleanup(dom) == IF dom = "attached" THEN "removed" ELSE "cleanupThrew"

\* The exporter's cleanup timer, 5 s after form.submit(): removeChild(form),
\* removeChild(iframe). The one-second timer of on_finish was set later
\* in the same task chain and is due 4 s earlier; a closed window runs no timer
CleanupTimer ==
    /\ pc = "closed"
    /\ display # "windowClosed"
    /\ exportDom \in {"attached", "detached"}
    /\ exportDom' = DomAfterCleanup(exportDom)
    /\ UNCHANGED <<probeVars, gridVars, assignVars, roundVars, promptVars, exportVars,
                   flowVars, envVars, monVars, uiVars, dataVars,
                   exportCalls, exportResult, exportCallbacks,
                   endPracticeCalls, display>>

----------------------------------------------------------------------------
(* The participant's browser *)

\* The participant zooms: window.devicePixelRatio takes another value (the
\* model follows the zooming until on_finish of initJsPsych has run: from
\* then on checkForZoomChange returns at its first line)
ZoomChange ==
    /\ pc \notin {"start", "finished", "ended", "closed"}
    /\ \E d \in DPRValues \ {dpr} : dpr' = d
    /\ UNCHANGED <<probeVars, gridVars, assignVars, roundVars, promptVars, exportVars, endVars, flowVars, fullscreen,
                   fsRequest, fsChangePending, fsMonitoring, monVars, uiVars,
                   dataVars>>

\* The participant leaves fullscreen (Esc); a fullscreenchange event is queued
\* for the listeners, if they are installed
UserExitsFullscreen ==
    /\ fullscreen
    /\ pc # "closed"
    /\ fullscreen' = FALSE
    /\ fsChangePending' = (fsChangePending \/ fsMonitoring)
    /\ UNCHANGED <<probeVars, gridVars, assignVars, roundVars, promptVars, exportVars, endVars, flowVars, dpr, fsRequest,
                   fsMonitoring, monVars, uiVars, dataVars>>

\* await document.documentElement.requestFullscreen() of zoomCheck.on_finish
\* settles
ResolveFullscreenRequest ==
    /\ fsRequest
    /\ fsRequest' = FALSE
    /\ \E granted \in BOOLEAN :
          IF granted /\ ~fullscreen
          THEN /\ fullscreen' = TRUE
               /\ fsChangePending' = (fsChangePending \/ fsMonitoring)
          ELSE UNCHANGED <<fullscreen, fsChangePending>>
    /\ UNCHANGED <<probeVars, gridVars, assignVars, roundVars, promptVars, exportVars, endVars, flowVars, dpr, fsMonitoring,
                   monVars, uiVars, dataVars>>

\* Mutant: the warning waits for the first recorded main trial
ShowsFullscreenWarningAfterFirstTrial ==
    ~fullscreen /\ ~fullscreenWarningShown /\ trialNumber >= 1 /\ ~experimentEnded

\* Mutant: the handler does not look at experimentEnded
ShowsFullscreenWarningAfterEnd ==
    ~fullscreen /\ ~fullscreenWarningShown /\ trialNumber >= 0

\* The condition of handleFullscreenChange
ShowsFullscreenWarning ==
    ~fullscreen /\ ~fullscreenWarningShown /\ trialNumber >= 0 /\ ~experimentEnded

\* handleFullscreenChange(), with showFullscreenWarning()
handleFullscreenChange ==
    /\ fsChangePending
    /\ pc # "closed"
    /\ fsChangePending' = FALSE
    /\ IF ShowsFullscreenWarning
       THEN fullscreenWarningShown' = TRUE /\ fsOverlay' = TRUE
       ELSE UNCHANGED <<fullscreenWarningShown, fsOverlay>>
    /\ UNCHANGED <<probeVars, gridVars, assignVars, roundVars, promptVars, exportVars, endVars, flowVars, dpr, fullscreen,
                   fsRequest, fsMonitoring, monVars, warningOverlay, warnLog,
                   terminationOverlays, zoomEndCalls, progressBar, dataVars>>

\* 'Return to Fullscreen' on the fullscreen warning: the overlay goes only if
\* the request is granted
ReturnToFullscreenClick ==
    /\ fsOverlay
    /\ \E granted \in BOOLEAN :
          IF granted
          THEN /\ fullscreen' = TRUE
               /\ fsChangePending' = (fsChangePending \/ ~fullscreen)
               /\ fsOverlay' = FALSE
               /\ fullscreenWarningShown' = FALSE
          ELSE UNCHANGED <<fullscreen, fsChangePending, fsOverlay,
                           fullscreenWarningShown>>
    /\ UNCHANGED <<probeVars, gridVars, assignVars, roundVars, promptVars, exportVars, endVars, flowVars, dpr, fsRequest,
                   fsMonitoring, monVars, warningOverlay, warnLog,
                   terminationOverlays, zoomEndCalls, progressBar, dataVars>>

\* 'I Understand - Continue' on the zoom warning
DismissZoomWarning ==
    /\ warningOverlay
    /\ warningOverlay' = FALSE
    /\ UNCHANGED <<probeVars, gridVars, assignVars, roundVars, promptVars, exportVars, endVars, flowVars, envVars, monVars,
                   fullscreenWarningShown, fsOverlay, warnLog,
                   terminationOverlays, zoomEndCalls, progressBar, dataVars>>

SessionNext ==
    \/ RunExperiment
    \/ FinishPreload
    \/ ClickButton
    \/ EnterFullscreenClick
    \/ ZoomCheckClick
    \/ InitZoomTrackingAgain
    \/ ConsentAgree
    \/ ConsentDecline
    \/ ScreenTimeout
    \/ AnswerQuestion
    \/ QuestionTimeout
    \/ PracticeFeedbackClick
    \/ DebriefClick
    \/ ExportSettles
    \/ CloseTimer
    \/ CleanupTimer
    \/ ZoomChange
    \/ UserExitsFullscreen
    \/ ResolveFullscreenRequest
    \/ handleFullscreenChange
    \/ ReturnToFullscreenClick
    \/ DismissZoomWarning
    \/ ResizeEvent
    \/ MediaQueryChange
    \/ PollTick

SpecSession == Init /\ [][SessionNext]_vars

----------------------------------------------------------------------------
(* Claims about the zoom monitor *)

\* A step in which checkForZoomChange found a deviation and logged it
DeviationRun == Len(zoomChanges') = Len(zoomChanges) + 1

\* C1: a run of checkForZoomChange that finds a deviation before
\* endPracticeMode (the practice block and everything before it) leaves the
\* session where it is, does not terminate, and leaves the deviating ratio as
\* the last one warned about, showing the warning overlay when that ratio was
\* not already the last one warned about; the same run after endPracticeMode
\* (main block, debrief) sets experimentTerminatedDueToZoom and calls
\* jsPsych.endExperiment once.
C1_WarnBeforeTerminateAfterPractice ==
    [][DeviationRun =>
         IF cur = 0
         THEN /\ ~experimentTerminatedDueToZoom'
              /\ zoomEndCalls' = zoomEndCalls
              /\ pc' = pc
              /\ experimentEnded' = experimentEnded
              /\ lastWarnedDPR' = dpr
              /\ (lastWarnedDPR = NULL \/ Deviates(dpr, lastWarnedDPR))
                    => (warningOverlay' /\ warnLog' = Append(warnLog, dpr))
         ELSE /\ experimentTerminatedDueToZoom'
              /\ zoomEndCalls' = zoomEndCalls + 1
              /\ endMessage' = "zoom"
              /\ warnLog' = warnLog]_vars

\* The same deviation was warned about in practice and terminated the session
\* in the main block
C1_Witness ==
    /\ experimentTerminatedDueToZoom
    /\ Len(zoomChanges) = 2
    /\ zoomChanges[1].current_dpr = zoomChanges[2].current_dpr
    /\ warnLog = <<zoomChanges[2].current_dpr>>
    /\ endMessage = "zoom"

\* C2: once initZoomTracking has set approvedDPR no step changes it (zoom
\* changes, checks, warnings, endPracticeMode, further initZoomTracking
\* calls), and every zoomChanges entry carries that value as approved_dpr and
\* a current_dpr that deviates from it.
C2_ApprovedDPRNeverChanges ==
    /\ [][approvedDPR # NULL => approvedDPR' = approvedDPR]_vars
    /\ [](\A i \in 1..Len(zoomChanges) :
             /\ zoomChanges[i].approved_dpr = approvedDPR
             /\ Deviates(zoomChanges[i].current_dpr, approvedDPR))
    /\ [](zoomTrackingActive => approvedDPR # NULL /\ initialDPR = approvedDPR)

\* Tracking approved a zoomed ratio, the participant went to other ratios, and
\* three deviations from the approved one were logged through practice and
\* the main block
C2_Witness ==
    /\ approvedDPR = 104
    /\ dpr # approvedDPR
    /\ Len(zoomChanges) = 3
    /\ Len(warnLog) = 2
    /\ ~inPracticeMode

\* C3: experimentTerminatedDueToZoom, once true, stays true; a deviation found
\* after endPracticeMode sets it; there is never more than one termination
\* overlay or more than one endExperiment call from the monitor; and from the
\* terminating step on the timeline shows no further screen (it stays, or goes
\* to the end of the experiment).
C3_TerminationOnceAndForAll ==
    /\ [][experimentTerminatedDueToZoom => experimentTerminatedDueToZoom']_vars
    /\ [][DeviationRun /\ cur >= 1 => experimentTerminatedDueToZoom']_vars
    /\ [](terminationOverlays <= 1 /\ zoomEndCalls <= 1)
    /\ [][experimentTerminatedDueToZoom'
            => pc' \in {pc, "finished", "ended", "closed"}]_vars

\* A terminated session of the memory experiment ran to its end, with the
\* participant at a ratio that still deviates
C3_Witness ==
    /\ experimentTerminatedDueToZoom
    /\ terminationOverlays = 1
    /\ zoomEndCalls = 1
    /\ experiment = "memory"
    /\ pc = "closed"
    /\ Deviates(dpr, approvedDPR)

RECURSIVE DistinctRuns(_, _, _)
\* The entries of s that deviate from the entry kept before them
DistinctRuns(s, i, acc) ==
    IF i > Len(s) THEN acc
    ELSE IF acc = <<>> \/ Deviates(s[i], acc[Len(acc)])
         THEN DistinctRuns(s, i + 1, Append(acc, s[i]))
         ELSE DistinctRuns(s, i + 1, acc)

\* The ratios of the deviations logged during practice, in order
PracticeRatios ==
    LET n == IF experimentTerminatedDueToZoom THEN Len(zoomChanges) - 1
             ELSE Len(zoomChanges)
    IN  [i \in 1..n |-> zoomChanges[i].current_dpr]

\* C4 as stated: no ratio is warned about twice.
C4_OneWarningPerDistinctRatio ==
    \A i, j \in 1..Len(warnLog) : i # j => warnLog[i] # warnLog[j]

\* C4 as the code has it: the warnings shown are the practice deviations
\* with every deviation dropped whose ratio is the one last warned about, so
\* consecutive warnings are for different ratios, and a ratio is warned about
\* again after a warning for another ratio.
C4_WarningWhenRatioDiffersFromLastWarned ==
    warnLog = DistinctRuns(PracticeRatios, 1, <<>>)

\* Two deviations to one ratio gave one warning, a third to another ratio a
\* second warning
C4_Witness ==
    /\ inPracticeMode
    /\ Len(zoomChanges) = 3
    /\ zoomChanges[1].current_dpr = zoomChanges[2].current_dpr
    /\ Len(warnLog) = 2
    /\ warnLog[1] # warnLog[2]

----------------------------------------------------------------------------
(* One question prompt after another: participant against timeout *)

\* Question prompts the model shows in a row
MaxPrompts == 3

\* Number fields of the form the model follows (the smile question has two,
\* the race question four)
NumFields == 2

\* What a number field can hold: a count the browser accepts (0..8, 0..12),
\* nothing (required), a number outside min..max
FieldStates == {"ok", "empty", "outOfRange"}

PromptKinds == {"button", "form"}

\* <input type="number" ... value="0" required>
InitialFields == [i \in 1..NumFields |-> "ok"]

\* Constraint validation of the form when its Submit button is activated
FormValid == \A i \in 1..Len(fields) : fields[i] = "ok"

\* Mutant: finishing a prompt leaves its timer pending
TimersAfterFinishUncleared(ts) == ts

\* The timers left when a prompt's trial finishes: on_finish of the form
\* question clears window.currentTimeoutId; the button question's
\* trial_duration timer is cleared with the trial
TimersAfterFinish(ts) ==
    IF promptKind = "form" THEN ts \ {currentTimeoutId} ELSE {}

\* The prompt's trial finishes: data written, on_finish run
FinishPrompt(by, timer, ts) ==
    /\ resolutions' = Append(resolutions,
                             [ prompt   |-> promptNo,
                               by       |-> by,
                               timer    |-> timer,
                               response |-> IF promptKind = "form" THEN fields
                                            ELSE IF by = "submit" THEN <<"choice">>
                                            ELSE <<>> ])
    /\ promptOpen' = FALSE
    /\ timers' = TimersAfterFinish(ts)

\* A question screen is rendered: trial_duration armed (button), or on_load
\* starts the 30 s timer and stores its id (form)
ShowPrompt ==
    /\ ~promptOpen
    /\ promptNo < MaxPrompts
    /\ \E k \in PromptKinds :
          /\ promptKind \in {"none", k}
          /\ promptKind' = k
          /\ currentTimeoutId' = IF k = "form" THEN promptNo + 1
                                 ELSE currentTimeoutId
          /\ fields' = IF k = "form" THEN InitialFields ELSE <<>>
    /\ promptNo' = promptNo + 1
    /\ promptOpen' = TRUE
    /\ timers' = timers \cup {promptNo + 1}
    /\ UNCHANGED <<firedTimers, resolutions>>
    /\ UNCHANGED <<probeVars, gridVars, assignVars, roundVars, sessVars, exportVars>>

\* The participant changes a number field
EditField ==
    /\ promptOpen
    /\ promptKind = "form"
    /\ \E i \in 1..Len(fields), v \in FieldStates :
          /\ v # fields[i]
          /\ fields' = [fields EXCEPT ![i] = v]
    /\ UNCHANGED <<promptKind, promptNo, promptOpen, timers, firedTimers,
                   currentTimeoutId, resolutions>>
    /\ UNCHANGED <<probeVars, gridVars, assignVars, roundVars, sessVars, exportVars>>

\* The participant presses a choice (button) or Submit (form; the browser
\* submits only a valid form)
ParticipantSubmit ==
    /\ promptOpen
    /\ promptKind = "form" => FormValid
    /\ FinishPrompt("submit", 0, timers)
    /\ UNCHANGED <<promptKind, promptNo, firedTimers, currentTimeoutId, fields>>
    /\ UNCHANGED <<probeVars, gridVars, assignVars, roundVars, sessVars, exportVars>>

\* A pending timeout timer runs. Button: the trial ends with a null response.
\* Form: document.querySelector('#jspsych-survey-html-form-next').click(),
\* which submits the form on the screen if there is one and it is valid
TimerFires ==
    \E n \in timers :
       /\ firedTimers' = firedTimers \cup {n}
       /\ IF promptOpen /\ (promptKind = "form" => FormValid)
          THEN FinishPrompt("timeout", n, timers \ {n})
          ELSE /\ timers' = timers \ {n}
               /\ UNCHANGED <<promptOpen, resolutions>>
       /\ UNCHANGED <<promptKind, promptNo, currentTimeoutId, fields>>
       /\ UNCHANGED <<probeVars, gridVars, assignVars, roundVars, sessVars, exportVars>>

PromptNext ==
    \/ ShowPrompt
    \/ EditField
    \/ ParticipantSubmit
    \/ TimerFires

SpecPrompt == Init /\ [][PromptNext]_vars

\* The resolutions recorded for prompt n
ResolutionsOf(n) == {i \in 1..Len(resolutions) : resolutions[i].prompt = n}

\* C5: every question prompt is finished at most once, and exactly once when
\* it is off the screen; what was recorded for it never changes afterwards;
\* a timeout only finishes the prompt that started its timer; and once a
\* prompt is finished no timer is pending (so none can act on a later screen).
C5_OneResolutionPerPrompt ==
    /\ [](\A n \in 1..promptNo :
             IF n = promptNo /\ promptOpen
             THEN ResolutionsOf(n) = {}
             ELSE Cardinality(ResolutionsOf(n)) = 1)
    /\ [](\A i \in 1..Len(resolutions) :
             resolutions[i].by = "timeout"
                => resolutions[i].timer = resolutions[i].prompt)
    /\ [](timers \subseteq (IF promptOpen THEN {promptNo} ELSE {}))
    /\ [][\A i \in 1..Len(resolutions) :
             i <= Len(resolutions') /\ resolutions'[i] = resolutions[i]]_vars

\* One prompt was finished by the participant, the next by its timeout, a
\* third by the participant again, and no timer is left
C5_Witness ==
    /\ Len(resolutions) = 3
    /\ resolutions[1].by = "submit"
    /\ resolutions[2].by = "timeout"
    /\ resolutions[3].by = "submit"
    /\ firedTimers = {2}
    /\ timers = {}

\* C6: once the 30-second timer of a count-entry question has run, that
\* question is off the screen, whatever its fields hold.
C6_TimeoutResolvesForm ==
    promptKind = "form" =>
        \A n \in firedTimers : ~(promptOpen /\ promptNo = n)

----------------------------------------------------------------------------
(* The exporters: what is recorded per presentation and what is sent.      *)
(* The session model above keeps the control flow; this part follows the   *)
(* data from the record step to the payload of form.submit().              *)

\* Presentations the model records before exporting
MaxRecorded == 2
\* exportData calls the model makes on one page
MaxExports == 2

ExportVariants == {"perception", "memory", "traits"}

\* JavaScript null, as a value of a recorded field
JsNull == "null"

\* jsPsych.randomization.shuffle of a list of labels: two of its outcomes
OrderSamples(labels) ==
    {labels, [i \in 1..Len(labels) |-> labels[Len(labels) + 1 - i]]}

\* An order joined with ',' for the record is kept as the list of its items

\* What the model lets vary in one presentation
PerceptionDraws ==
    [ raceFirst     : BOOLEAN,
      raceOptions   : OrderSamples(<<"Asian", "Black", "Hispanic", "White">>),
      smileOptions  : OrderSamples(<<"Yes", "No">>),
      raceTimedOut  : BOOLEAN,
      smileTimedOut : BOOLEAN ]

MemoryDraws ==
    [ questionType : {"race", "smile"},
      raceInputs   : OrderSamples(<<"asian", "black", "hispanic", "white">>),
      smileInputs  : OrderSamples(<<"smiling", "not_smiling">>),
      timedOut     : BOOLEAN,
      typed        : BOOLEAN ]

TraitsDraws ==
    [ traitOrder : OrderSamples(<<"trustworthy", "competent", "attractive",
                                  "friendly">>) ]

\* The stimulus of the n-th presentation
SampleStimulus(n) ==
    StimulusTrial(Individuals, (PerCondition * (n - 1)) % TrialCount)

\* The grid of the n-th round
SampleGrid(n) ==
    generateGridForRound("grid8", "big", Individuals,
                         [i \in 1..TotalImages8 |-> (i + n) % 2 = 0], 0, 1)

\* trial_number / round_number of the record step
RecordedNumber(isPractice, number) ==
    IF isPractice THEN "practice" ELSE ToString(number)

\* `${race}_${gender}_${smile}_${id}_${size}`
ImageName(stimulus) ==
    <<stimulus.race, stimulus.gender,
      IF stimulus.smile THEN "smile" ELSE "nosmile",
      stimulus.individual_id[3], stimulus.size>>

\* String.prototype.toLowerCase, on the button labels
toLowerCase(label) ==
    CASE label = "Asian"    -> "asian"
      [] label = "Black"    -> "black"
      [] label = "Hispanic" -> "hispanic"
      [] label = "White"    -> "white"
      [] label = "Yes"      -> "yes"
      [] label = "No"       -> "no"
      [] OTHER              -> label

\* raceOptions.map(o => o.toLowerCase()) (joined with ',' in the code)
OptionsOrder(options) == [i \in 1..Len(options) |-> toLowerCase(options[i])]

\* Perception, createTrial: the value recordData returns. A question answered
\* records the option pressed (the model presses the first) and its rt; a
\* question that timed out records null for both (on_finish)
PerceptionValue(isPractice, number, d) ==
    LET stimulus      == SampleStimulus(number + 1)
        raceResponse  == IF d.raceTimedOut THEN JsNull
                         ELSE toLowerCase(d.raceOptions[1])
        smileResponse == IF d.smileTimedOut THEN JsNull
                         ELSE toLowerCase(d.smileOptions[1])
    IN  [ participant_id     |-> "participantId",
          trial_number       |-> RecordedNumber(isPractice, number),
          image_name         |-> ImageName(stimulus),
          true_race          |-> stimulus.race,
          true_gender        |-> stimulus.gender,
          size_condition     |-> stimulus.size,
          smile_condition    |-> IF stimulus.smile THEN "smile" ELSE "nosmile",
          question_order     |-> IF d.raceFirst THEN "race_first"
                                 ELSE "smile_first",
          race_options_order |-> OptionsOrder(d.raceOptions),
          smile_options_order |-> OptionsOrder(d.smileOptions),
          race_response      |-> raceResponse,
          race_rt            |-> IF d.raceTimedOut THEN JsNull ELSE "rt",
          race_correct       |-> (raceResponse = stimulus.race),
          smile_response     |-> smileResponse,
          smile_rt           |-> IF d.smileTimedOut THEN JsNull ELSE "rt",
          smile_correct      |-> ((smileResponse = "yes") = stimulus.smile),
          is_practice        |-> isPractice ]

\* Memory, createRound: the data of the question trial (baseRoundData spread
\* into it, the form's response and rt, response_order from on_finish). The
\* 30-second timer presses Submit, so a question that timed out holds the
\* form's values of that moment and the rt of the press, like one submitted
\* by hand; untouched fields hold their initial "0"
MemoryQuestionData(isPractice, round, d) ==
    LET g      == SampleGrid(round)
        inputs == IF d.questionType = "race" THEN d.raceInputs
                  ELSE d.smileInputs
    IN  [ trial_type     |-> "survey-html-form",
          trial_part     |-> IF d.questionType = "race" THEN "race_question"
                             ELSE "smile_question",
          question_type  |-> d.questionType,
          is_practice    |-> isPractice,
          grid_order     |-> GridOrder(g),
          input_order    |-> inputs,
          response_order |-> IF d.typed THEN inputs ELSE <<>>,
          composition    |-> g.composition,
          size_condition |-> g.size,
          response       |-> [k \in Range(inputs) |->
                                 IF d.typed THEN g.composition[k] ELSE 0],
          rt             |-> "rt" \o ToString(round) ]

\* Mutant: the first question trial of that type is read
FirstQuestionData(data, part) ==
    LET found == {i \in 1..Len(data) :
                     "trial_part" \in DOMAIN data[i] /\ data[i].trial_part = part}
    IN  data[CHOOSE i \in found : \A j \in found : i <= j]

\* Memory, recordData:
\* jsPsych.data.get().filter({trial_part: questionTrialPart}).last(1).values()[0]
LastQuestionData(data, part) ==
    LET found == {i \in 1..Len(data) :
                     "trial_part" \in DOMAIN data[i] /\ data[i].trial_part = part}
    IN  data[CHOOSE i \in found : \A j \in found : i >= j]

\* Memory, createRound: the value recordData returns, read from the last
\* question trial's data
MemoryValue(isPractice, number, q) ==
    LET common ==
          [ participant_id     |-> "participantId",
            round_number       |-> RecordedNumber(isPractice, number),
            size_condition     |-> q.size_condition,
            question_type      |-> q.question_type,
            is_practice        |-> isPractice,
            grid_order         |-> q.grid_order,
            input_order        |-> q.input_order,
            response_order     |-> q.response_order,
            actual_asian       |-> q.composition.asian,
            actual_black       |-> q.composition.black,
            actual_hispanic    |-> q.composition.hispanic,
            actual_white       |-> q.composition.white,
            actual_smiling     |-> q.composition.smiling,
            actual_not_smiling |-> q.composition.not_smiling,
            response_rt        |-> q.rt ]
        accuracy ==
          IF q.question_type = "race"
          THEN [ asian_response    |-> q.response.asian,
                 black_response    |-> q.response.black,
                 hispanic_response |-> q.response.hispanic,
                 white_response    |-> q.response.white,
                 asian_error    |-> q.response.asian - q.composition.asian,
                 black_error    |-> q.response.black - q.composition.black,
                 hispanic_error |-> q.response.hispanic - q.composition.hispanic,
                 white_error    |-> q.response.white - q.composition.white,
                 asian_correct    |-> (q.response.asian = q.composition.asian),
                 black_correct    |-> (q.response.black = q.composition.black),
                 hispanic_correct |-> (q.response.hispanic = q.composition.hispanic),
                 white_correct    |-> (q.response.white = q.composition.white) ]
          ELSE [ smiling_response     |-> q.response.smiling,
                 not_smiling_response |-> q.response.not_smiling,
                 smiling_error     |-> q.response.smiling - q.composition.smiling,
                 not_smiling_error |-> q.response.not_smiling
                                          - q.composition.not_smiling,
                 smiling_correct     |-> (q.response.smiling = q.composition.smiling),
                 not_smiling_correct |-> (q.response.not_smiling
                                             = q.composition.not_smiling) ]
    IN  common @@ accuracy

\* Traits, createTrial: the value recordData returns (every trait screen
\* answered: the model gives each the rating 4 and the confidence 3)
TraitsValue(isPractice, number, d) ==
    LET stimulus == SampleStimulus(number + 1)
    IN  [ participant_id  |-> "participantId",
          trial_number    |-> RecordedNumber(isPractice, number),
          image_name      |-> ImageName(stimulus),
          true_race       |-> stimulus.race,
          true_gender     |-> stimulus.gender,
          size_condition  |-> stimulus.size,
          smile_condition |-> IF stimulus.smile THEN "smile" ELSE "nosmile",
          trait_order     |-> d.traitOrder,
          trustworthy_rating |-> 4, trustworthy_confidence |-> 3,
          trustworthy_rt     |-> "rt",
          competent_rating   |-> 4, competent_confidence   |-> 3,
          competent_rt       |-> "rt",
          attractive_rating  |-> 4, attractive_confidence  |-> 3,
          attractive_rt      |-> "rt",
          friendly_rating    |-> 4, friendly_confidence    |-> 3,
          friendly_rt        |-> "rt",
          is_practice     |-> isPractice ]

\* {} : an object with no properties
EmptyObject == <<>>

\* The properties of rec among names: a property read as undefined is left
\* out by JSON.stringify
Project(rec, names) == [f \in (names \cap DOMAIN rec) |-> rec[f]]

\* sendToGoogleSheets: the filter that picks the record-step entries
IsOutcomeEntry(variant, d) ==
    /\ "value" \in DOMAIN d
    /\ CASE variant = "perception" ->
              {"image_name", "race_response"} \subseteq DOMAIN d.value
         [] variant = "memory" ->
              {"round_number", "question_type"} \subseteq DOMAIN d.value
         [] variant = "traits" ->
              {"image_name", "trustworthy_rating"} \subseteq DOMAIN d.value

\* allData.filter(...)
OutcomeEntries(variant, data) ==
    SelectSeq(data, LAMBDA d : IsOutcomeEntry(variant, d))

\* allData.find(...) for the demographics form, {} when there is none
DemographicsOf(data) ==
    LET found == {i \in 1..Len(data) :
                     /\ data[i].trial_type = "survey-html-form"
                     /\ "response" \in DOMAIN data[i]
                     /\ "age" \in DOMAIN data[i].response}
    IN  IF found = {} THEN EmptyObject
        ELSE data[CHOOSE i \in found : \A j \in found : i <= j].response

\* getZoomTrackingData()
getZoomTrackingData ==
    [ zoom_check_bypassed    |-> zoomCheckBypassed,
      zoom_check_attempts    |-> zoomCheckAttempts,
      approved_dpr           |-> approvedDPR,
      initial_dpr            |-> initialDPR,
      zoom_changes_count     |-> Len(zoomChanges),
      zoom_changes           |-> zoomChanges,
      terminated_due_to_zoom |-> experimentTerminatedDueToZoom ]

\* The properties each exporter copies into an entry of trials / rounds
PayloadFields(variant) ==
    CASE variant = "perception" ->
           {"trial_number", "image_name", "true_race", "true_gender",
            "size_condition", "smile_condition", "question_order",
            "race_options_order", "smile_options_order", "race_response",
            "race_rt", "race_correct", "smile_response", "smile_rt",
            "smile_correct", "is_practice"}
      [] variant = "memory" ->
           {"round_number", "size_condition", "question_type", "is_practice",
            "actual_asian", "actual_black", "actual_hispanic", "actual_white",
            "actual_smiling", "actual_not_smiling", "asian_response",
            "black_response", "hispanic_response", "white_response",
            "asian_error", "black_error", "hispanic_error", "white_error",
            "smiling_response", "not_smiling_response", "smiling_error",
            "not_smiling_error", "response_rt"}
      [] variant = "traits" ->
           {"trial_number", "image_name", "true_race", "true_gender",
            "size_condition", "smile_condition", "trait_order",
            "trustworthy_rating", "trustworthy_confidence", "trustworthy_rt",
            "competent_rating", "competent_confidence", "competent_rt",
            "attractive_rating", "attractive_confidence", "attractive_rt",
            "friendly_rating", "friendly_confidence", "friendly_rt",
            "is_practice"}

\* trialData.map(...) / roundData.map(...)
PayloadOutcomes(variant, data) ==
    LET entries == OutcomeEntries(variant, data)
    IN  [i \in 1..Len(entries) |->
            Project(entries[i].value, PayloadFields(variant))]

\* new Date().toISOString() at the clock reading now
IsoTimestamp(now) == <<"ISO-8601", now>>

\* sendToGoogleSheets: the payload object
BuildPayload(variant, data, now) ==
    LET base == [ participant_id |-> "participantId",
                  timestamp      |-> IsoTimestamp(now),
                  demographics   |-> DemographicsOf(data) ]
    IN  CASE variant = "perception" ->
               base @@ [ zoom_tracking |-> getZoomTrackingData,
                         trials        |-> PayloadOutcomes(variant, data) ]
          [] variant = "memory" ->
               base @@ [ experiment |-> "memory",
                         rounds     |-> PayloadOutcomes(variant, data) ]
          [] variant = "traits" ->
               base @@ [ experiment    |-> "subj_traits",
                         zoom_tracking |-> getZoomTrackingData,
                         trials        |-> PayloadOutcomes(variant, data) ]

\* Mutant: a page that has submitted once does not submit again
SubmissionsAfterOnce(result, payload) ==
    IF result = "sent" /\ submissions = <<>>
    THEN Append(submissions, payload) ELSE submissions

\* sendToGoogleSheets: form.submit() with the payload, on every call
SubmissionsAfter(result, payload) ==
    IF result = "sent" THEN Append(submissions, payload) ELSE submissions

\* exportData(jsPsych, participantId, onComplete, onError)
exportData(result) ==
    /\ submissions' = SubmissionsAfter(result,
                         BuildPayload(exportVariant, allData, Len(exportLog) + 1))
    /\ exportLog' = Append(exportLog, [ result    |-> result,
                                        callbacks |-> CallbacksOf(result) ])

\* The page of one experiment is loaded, with its data-export.js
LoadExporter ==
    /\ exportVariant = "none"
    /\ \E v \in ExportVariants : exportVariant' = v
    /\ UNCHANGED <<allData, presentations, submissions, exportLog>>
    /\ UNCHANGED <<probeVars, gridVars, assignVars, roundVars, sessVars, promptVars>>

\* The demographics form is submitted: its trial data is written
SubmitDemographics ==
    /\ exportVariant # "none"
    /\ allData = <<>>
    /\ exportLog = <<>>
    /\ allData' = <<[ trial_type |-> "survey-html-form",
                      response   |-> [ age |-> "25", gender |-> "female" ] ]>>
    /\ UNCHANGED <<exportVariant, presentations, submissions, exportLog>>
    /\ UNCHANGED <<probeVars, gridVars, assignVars, roundVars, sessVars, promptVars>>

\* Mutant: the race question always comes first
PerceptionPromptsRaceFirst(d) ==
    << [ trial_type |-> "html-button-response", trial_part |-> "race_question",
         question_number |-> IF d.raceFirst THEN 1 ELSE 2 ],
       [ trial_type |-> "html-button-response", trial_part |-> "smile_question",
         question_number |-> IF d.raceFirst THEN 2 ELSE 1 ] >>

\* Perception, createTrial: the question trials in timeline order
\* (raceFirst: race then smile, otherwise smile then race)
PerceptionPrompts(d) ==
    LET raceQuestion  == [ trial_type |-> "html-button-response",
                           trial_part |-> "race_question",
                           question_number |-> IF d.raceFirst THEN 1 ELSE 2 ]
        smileQuestion == [ trial_type |-> "html-button-response",
                           trial_part |-> "smile_question",
                           question_number |-> IF d.raceFirst THEN 2 ELSE 1 ]
    IN  IF d.raceFirst THEN <<raceQuestion, smileQuestion>>
        ELSE <<smileQuestion, raceQuestion>>

\* Traits, createTrial: traitOrder.map(...), one rating screen per trait
TraitPrompts(d) ==
    [ i \in 1..Len(d.traitOrder) |->
        [ trial_type     |-> "survey-html-form",
          trial_part     |-> "trait_rating",
          trait          |-> d.traitOrder[i],
          trait_position |-> i ] ]

\* The data one presentation writes: its question trial(s), then the
\* call-function trial holding the record step's value; with it, which of
\* its questions timed out
PresentationData(variant, isPractice, number) ==
    CASE variant = "perception" ->
           { [ entries |->
                 Append(PerceptionPrompts(d),
                    [ trial_type |-> "call-function",
                      value |-> PerceptionValue(isPractice, number, d) ]),
               timedOut |-> {q \in {"race", "smile"} :
                                \/ q = "race" /\ d.raceTimedOut
                                \/ q = "smile" /\ d.smileTimedOut} ]
             : d \in PerceptionDraws }
      [] variant = "memory" ->
           { [ entries |->
                 << MemoryQuestionData(isPractice, number + 1, d),
                    [ trial_type |-> "call-function",
                      value |-> MemoryValue(isPractice, number,
                                   LastQuestionData(
                                      Append(allData,
                                         MemoryQuestionData(isPractice, number + 1, d)),
                                      d.questionType \o "_question")) ] >>,
               timedOut |-> IF d.timedOut THEN {d.questionType} ELSE {} ]
             : d \in {m \in MemoryDraws : m.timedOut => ~m.typed} }
      [] variant = "traits" ->
           { [ entries |->
                 Append(TraitPrompts(d),
                    [ trial_type |-> "call-function",
                      value |-> TraitsValue(isPractice, number, d) ]),
               timedOut |-> {} ]
             : d \in TraitsDraws }

\* One presentation runs to its record step (the first is the practice one)
RecordPresentation ==
    /\ exportVariant # "none"
    /\ exportLog = <<>>
    /\ Len(presentations) < MaxRecorded
    /\ \E p \in PresentationData(exportVariant, presentations = <<>>,
                                 Len(presentations)) :
          /\ allData' = allData \o p.entries
          /\ presentations' = Append(presentations, [timedOut |-> p.timedOut])
    /\ UNCHANGED <<exportVariant, submissions, exportLog>>
    /\ UNCHANGED <<probeVars, gridVars, assignVars, roundVars, sessVars, promptVars>>

\* exportData is called (by on_finish, or again by hand)
ExportData ==
    /\ exportVariant # "none"
    /\ Len(exportLog) < MaxExports
    /\ \E result \in ExportResults : exportData(result)
    /\ UNCHANGED <<exportVariant, allData, presentations>>
    /\ UNCHANGED <<probeVars, gridVars, assignVars, roundVars, sessVars, promptVars>>

ExportNext ==
    \/ LoadExporter
    \/ SubmitDemographics
    \/ RecordPresentation
    \/ ExportData

SpecExport == Init /\ [][ExportNext]_vars

\* C11: every payload submitted, whichever exporter built it, holds the
\* participant id, an ISO-8601 timestamp, the demographics, the zoom_tracking
\* record and the list of outcomes.
C11_PayloadHasAllParts ==
    \A i \in 1..Len(submissions) :
        /\ {"participant_id", "timestamp", "demographics", "zoom_tracking"}
              \subseteq DOMAIN submissions[i]
        /\ submissions[i].timestamp[1] = "ISO-8601"
        /\ ({"trials", "rounds"} \cap DOMAIN submissions[i]) # {}


\* The properties of an outcome that hold a randomized order
OrderFields ==
    {"question_order", "race_options_order", "smile_options_order",
     "trait_order", "grid_order", "input_order", "response_order"}

\* The outcome list of a payload, under whichever key its exporter uses
OutcomesOf(payload) ==
    IF "trials" \in DOMAIN payload THEN payload.trials
    ELSE IF "rounds" \in DOMAIN payload THEN payload.rounds
    ELSE <<>>

\* C12: every randomized order stored in a presentation's recorded outcome
\* appears, with the same value, in the matching outcome of every submitted
\* payload.
C12_OrdersCarriedIntoPayload ==
    \A i \in 1..Len(submissions) :
        LET outs    == OutcomesOf(submissions[i])
            entries == OutcomeEntries(exportVariant, allData)
        IN  /\ Len(outs) = Len(entries)
            /\ \A k \in 1..Len(entries) :
                  \A f \in OrderFields \cap DOMAIN entries[k].value :
                      /\ f \in DOMAIN outs[k]
                      /\ outs[k][f] = entries[k].value[f]


\* The exportData calls whose form was submitted
SentCalls == {i \in 1..Len(exportLog) : exportLog[i].result = "sent"}

\* C15: every exportData call whose form submission goes through adds one
\* submission of its own, also a second call of the same session, and each
\* submission carries the whole payload as built at its call (one outcome per
\* recorded presentation); every call ends with a callback, none is dropped.
C15_EveryCallSubmitsFullPayload ==
    /\ Len(submissions) = Cardinality(SentCalls)
    /\ \A i \in 1..Len(exportLog) : Len(exportLog[i].callbacks) = 1
    /\ \A i \in 1..Len(submissions) :
          /\ submissions[i] = BuildPayload(exportVariant, allData,
                                           submissions[i].timestamp[2])
          /\ Len(OutcomesOf(submissions[i])) = Len(presentations)

\* Two calls for a session with recorded presentations, both submitted
C15_Witness ==
    /\ Len(exportLog) = 2
    /\ Len(submissions) = 2
    /\ Len(presentations) = MaxRecorded
    /\ submissions[1].timestamp # submissions[2].timestamp

\* The response and response-time properties one question fills in an outcome
QuestionFields(variant, question) ==
    CASE variant = "perception" /\ question = "race" ->
           {"race_response", "race_rt"}
      [] variant = "perception" /\ question = "smile" ->
           {"smile_response", "smile_rt"}
      [] variant = "memory" /\ question = "race" ->
           {"asian_response", "black_response", "hispanic_response",
            "white_response", "response_rt"}
      [] variant = "memory" /\ question = "smile" ->
           {"smiling_response", "not_smiling_response", "response_rt"}
      [] OTHER -> {}

\* C16: every submitted payload holds one outcome per presentation run, in
\* presentation order (the practice one, then 1, 2, ...), and every question
\* that timed out is exported with a null response and a null response time.
C16_OneOutcomeEachTimeoutsNull ==
    \A i \in 1..Len(submissions) :
        LET outs   == OutcomesOf(submissions[i])
            number == IF exportVariant = "memory" THEN "round_number"
                      ELSE "trial_number"
        IN  /\ Len(outs) = Len(presentations)
            /\ \A k \in 1..Len(outs) :
                  /\ outs[k][number] = RecordedNumber(k = 1, k - 1)
                  /\ \A q \in presentations[k].timedOut :
                        \A f \in QuestionFields(exportVariant, q) :
                            outs[k][f] = JsNull


----------------------------------------------------------------------------
(* Claims about the end of the session *)

\* on_finish of initJsPsych has run
AfterEnd == {"finished", "ended", "closed"}

\* The session has reached its end: debrief finished, consent declined, or
\* terminated by the zoom monitor
SessionEnded ==
    \/ pc \in AfterEnd
    \/ endMessage = "declined"
    \/ experimentTerminatedDueToZoom

\* C13: the exporter is invoked at most once, never before the session has
\* reached its end, and in every session that has reached its end (debrief
\* finished, consent declined, zoom termination) it has been invoked once.
C13_ExportedOnceAtSessionEnd ==
    /\ exportCalls <= 1
    /\ exportCalls = 1 => SessionEnded
    /\ SessionEnded => exportCalls = 1

PracticeFlagInStep ==
    /\ endPracticeCalls <= 1
    /\ inPracticeMode <=> endPracticeCalls = 0
    /\ cur >= 1 <=> endPracticeCalls = 1

\* C17: endPracticeMode is called at most once, by the step that follows the
\* practice presentation's record step and shows the first main screen;
\* inPracticeMode is TRUE in every state before the call and FALSE in every
\* state after it, and the main block is never running without the call.
C17_EndPracticeOnceBeforeMain ==
    [][ /\ PracticeFlagInStep
        /\ PracticeFlagInStep'
        /\ endPracticeCalls' # endPracticeCalls =>
              /\ pc = "practiceFeedback"
              /\ outcomes = <<[is_practice |-> TRUE, trial_number |-> "practice"]>>
              /\ outcomes' = outcomes
              /\ pc' = PresentationScreens(experiment)[1]
              /\ cur' = 1 ]_vars

\* A session that ran practice and the whole main block
C17_Witness ==
    /\ pc = "debrief"
    /\ endPracticeCalls = 1
    /\ ~inPracticeMode
    /\ Len(outcomes) = MainTrials + 1

\* C18: in every terminal state the 500 ms poll is cleared and the resize and
\* media-query listeners are removed.
C18_MonitorTornDownAtEnd ==
    SessionEnded =>
        /\ ~zoomCheckInterval
        /\ ~resizeListener
        /\ mqlDPR = NULL

\* C19: declining consent ends the session at once: the step from the consent
\* screen runs on_finish of initJsPsych, no screen of the timeline is shown
\* afterwards and no outcome is ever recorded.
C19_DeclineEndsAtOnce ==
    [][ /\ endMessage' = "declined" /\ endMessage # "declined" =>
              /\ pc = "consent"
              /\ pc' = "finished"
        /\ endMessage = "declined" =>
              /\ pc \in AfterEnd
              /\ pc' \in AfterEnd
              /\ endMessage' = "declined"
        /\ endMessage' = "declined" =>
              /\ outcomes' = <<>>
              /\ cur' = 0
              /\ trialNumber' = 0 ]_vars

\* A session ended by 'I Do Not Agree', past the one-second timer
C19_Witness ==
    /\ endMessage = "declined"
    /\ pc = "closed"
    /\ outcomes = <<>>

\* The screen that names the cause of the session's end
CauseScreen ==
    IF experimentTerminatedDueToZoom THEN "zoomTermination"
    ELSE IF endMessage = "declined" THEN "declinedMessage"
    ELSE "thankYou"

\* C20: once the session is over and the window is still open, the page shows
\* the screen of its cause: the zoom-termination explanation, the
\* declined-consent message, or the thank-you message.
C20_FinalScreenNamesCause ==
    pc = "closed" /\ display # "windowClosed" => display = CauseScreen


----------------------------------------------------------------------------
(* Claims about fullscreen monitoring and the display check *)

C22_BypassOnlyAfterThreeAndTracked ==
    [][ /\ zoomCheckBypassed' /\ ~zoomCheckBypassed =>
              /\ pc = "zoomCheck"
              /\ zoomCheckAttempts >= 3
              /\ fullscreen
              /\ detectZoomLevel(dpr) \notin (100 - 5)..(100 + 5)
              /\ pc' = "welcome"
              /\ ~zoomTrackingActive /\ zoomTrackingActive'
              /\ approvedDPR' = dpr /\ initialDPR' = dpr
              /\ zoomCheckInterval' /\ resizeListener' /\ mqlDPR' = dpr
        /\ zoomCheckBypassed =>
              /\ zoomCheckBypassed'
              /\ zoomTrackingActive /\ zoomTrackingActive'
              /\ approvedDPR' = approvedDPR
              /\ approvedDPR # NULL ]_vars

\* A bypassed session in its main block whose deviation was recorded
C22_Witness ==
    /\ zoomCheckBypassed
    /\ zoomTrackingActive
    /\ approvedDPR = 125
    /\ Len(zoomChanges) >= 1
    /\ cur >= 1

\* C23: the step that sets zoomCheckBypassed is a click on a screen whose
\* rendered second button is 'Proceed Anyway'.
C23_BypassOnlyByProceedAnyway ==
    [][ zoomCheckBypassed' /\ ~zoomCheckBypassed =>
            /\ Len(choices) = 2
            /\ choices[2] = "Proceed Anyway" ]_vars

\* The display check passes at the moment a click is processed
CheckPassesNow == detectZoomLevel(dpr) \in (100 - 5)..(100 + 5) /\ fullscreen

\* C24: the loop is left only by a click processed while zoom is within
\* tolerance and fullscreen is active, or by the click that grants the bypass;
\* a click processed while the check fails, whatever the screen showed, starts
\* another iteration; the attempt counter goes up by one per rendered
\* iteration and never down.
C24_LoopExitsOnCurrentCheckOnly ==
    [][ /\ zoomCheckAttempts' \in {zoomCheckAttempts, zoomCheckAttempts + 1}
        /\ zoomCheckAttempts' # zoomCheckAttempts =>
              /\ pc \in {"enterFullscreen", "zoomCheck"}
              /\ pc' = "zoomCheck"
        /\ pc = "zoomCheck" /\ pc' # "zoomCheck" =>
              /\ pc' = "welcome"
              /\ zoomCheckAttempts' = zoomCheckAttempts
              /\ CheckPassesNow \/ (zoomCheckBypassed' /\ ~zoomCheckBypassed)
        /\ pc = "zoomCheck" /\ zoomCheckAttempts' # zoomCheckAttempts =>
              /\ ~CheckPassesNow
              /\ zoomCheckBypassed' = zoomCheckBypassed ]_vars

\* The screen was rendered with 'Continue' and the browser has been zoomed
\* out of tolerance since: the click to come is processed with a failing check
C24_Witness ==
    /\ pc = "zoomCheck"
    /\ choices = <<"Continue">>
    /\ fullscreen
    /\ ~CheckPassesNow
    /\ zoomCheckAttempts >= 1

\* C25: the step in which initZoomTracking captures the baseline, in a session
\* not bypassed, is made in fullscreen and captures a ratio within 5 points of
\* 100% zoom.
C25_BaselineCapturedWhenCheckPasses ==
    [][ ~zoomTrackingActive /\ zoomTrackingActive' /\ ~zoomCheckBypassed' =>
            /\ fullscreen /\ fullscreen'
            /\ approvedDPR' = dpr
            /\ detectZoomLevel(approvedDPR') \in (100 - 5)..(100 + 5) ]_vars

\* Tracking started without bypass on a ratio that is not exactly 1.00
C25_Witness ==
    /\ zoomTrackingActive
    /\ ~zoomCheckBypassed
    /\ approvedDPR = 104


\* The positions in allData of the memory question trials, and of the record
\* steps, in the order written
QuestionPositions ==
    {i \in 1..Len(allData) :
        /\ "trial_part" \in DOMAIN allData[i]
        /\ allData[i].trial_part \in {"race_question", "smile_question"}}

RecordPositions ==
    {i \in 1..Len(allData) : IsOutcomeEntry("memory", allData[i])}

\* The k-th smallest member of a set of numbers
Nth(S, k) == CHOOSE x \in S : Cardinality({y \in S : y <= x}) = k

\* C26: in the memory variant the k-th record step is written right after the
\* k-th question trial, and the response, response time, orders and actual
\* composition in its value are those of that question trial.
C26_RecordReadsOwnQuestion ==
    exportVariant = "memory" =>
        /\ Cardinality(QuestionPositions) = Cardinality(RecordPositions)
        /\ \A k \in 1..Cardinality(RecordPositions) :
              LET qi == Nth(QuestionPositions, k)
                  q  == allData[qi]
                  v  == allData[Nth(RecordPositions, k)].value
              IN  /\ Nth(RecordPositions, k) = qi + 1
                  /\ v.question_type = q.question_type
                  /\ v.response_rt = q.rt
                  /\ v.grid_order = q.grid_order
                  /\ v.input_order = q.input_order
                  /\ v.response_order = q.response_order
                  /\ v.actual_asian = q.composition.asian
                  /\ v.actual_black = q.composition.black
                  /\ v.actual_hispanic = q.composition.hispanic
                  /\ v.actual_white = q.composition.white
                  /\ v.actual_smiling = q.composition.smiling
                  /\ v.actual_not_smiling = q.composition.not_smiling
                  /\ \A r \in DOMAIN q.response :
                        v[r \o "_response"] = q.response[r]

\* Two rounds with the same question type were recorded, the second with
\* another grid and another answer than the first
C26_Witness ==
    /\ exportVariant = "memory"
    /\ Cardinality(RecordPositions) = 2
    /\ LET v1 == allData[Nth(RecordPositions, 1)].value
           v2 == allData[Nth(RecordPositions, 2)].value
       IN  /\ v1.question_type = "race" /\ v2.question_type = "race"
           /\ v1.grid_order # v2.grid_order
           /\ v1.response_rt # v2.response_rt
           /\ v1.asian_response # v2.asian_response


----------------------------------------------------------------------------
(* Claims about the record step *)

\* The session was terminated for cause
Terminated == experimentTerminatedDueToZoom \/ endMessage = "declined"

\* C27: the step that terminates the session (zoom termination or declined
\* consent) records nothing, and from a terminated session on no outcome is
\* added and the completed counter stays as it is.
C27_NoRecordAfterTermination ==
    [][ /\ Terminated => Terminated'
        /\ Terminated' =>
              /\ outcomes' = outcomes
              /\ trialNumber' = trialNumber ]_vars

\* A session terminated by the zoom monitor in its second main presentation,
\* the one-second timer past: that presentation has no outcome
C27_Witness ==
    /\ experimentTerminatedDueToZoom
    /\ pc = "closed"
    /\ cur = MainTrials
    /\ Len(outcomes) = MainTrials
    /\ trialNumber = MainTrials - 1

\* The main-block outcomes among the first i recorded
MainOutcomesUpTo(i) == {j \in 1..i : ~outcomes[j].is_practice}

\* What holds of the completed counter in every state
CounterMatchesOutcomes ==
    /\ trialNumber = Cardinality(MainOutcomesUpTo(Len(outcomes)))
    /\ trialNumber <= MainTrials
    /\ \A i \in 1..Len(outcomes) :
          IF outcomes[i].is_practice
          THEN outcomes[i].trial_number = "practice"
          ELSE outcomes[i].trial_number = Cardinality(MainOutcomesUpTo(i))

\* C28: the completed counter equals the number of main-block outcomes, the
\* n-th main outcome carries n and a practice outcome 'practice', the counter
\* stays within the main block's size, and it changes only by +1 in a step
\* that records a main-block outcome.
C28_CounterCountsMainOutcomes ==
    [][ /\ CounterMatchesOutcomes
        /\ CounterMatchesOutcomes'
        /\ trialNumber' # trialNumber =>
              /\ trialNumber' = trialNumber + 1
              /\ cur >= 1
              /\ Len(outcomes') = Len(outcomes) + 1
              /\ ~outcomes'[Len(outcomes')].is_practice
        /\ Len(outcomes') # Len(outcomes) /\ cur = 0 =>
              trialNumber' = trialNumber ]_vars

\* The whole main block was recorded after the practice presentation
C28_Witness ==
    /\ trialNumber = MainTrials
    /\ Len(outcomes) = MainTrials + 1
    /\ outcomes[1].is_practice
    /\ pc = "debrief"


\* C29: in every recorded perception outcome race_correct is TRUE exactly when
\* race_response is the stimulus's true race, smile_correct is TRUE exactly
\* when smile_response is 'yes' for a smiling and 'no' for a not smiling
\* stimulus, and a question that timed out (null response) is not scored
\* correct.
C29_CorrectnessMatchesTruth ==
    exportVariant = "perception" =>
        \A i \in 1..Len(allData) :
            IsOutcomeEntry("perception", allData[i]) =>
                LET v == allData[i].value
                    matching == IF v.smile_condition = "smile" THEN "yes"
                                ELSE "no"
                IN  /\ v.race_correct <=> (v.race_response = v.true_race)
                    /\ v.smile_correct <=> (v.smile_response = matching)
                    /\ v.race_response = JsNull => ~v.race_correct
                    /\ v.smile_response = JsNull => ~v.smile_correct

\* The prompt entries written for the k-th presentation: those between the
\* record step before it and its own
PromptsOf(k) ==
    LET records == {i \in 1..Len(allData) :
                       IsOutcomeEntry(exportVariant, allData[i])}
        upper   == Nth(records, k)
        lower   == IF k = 1 THEN 0 ELSE Nth(records, k - 1)
    IN  SelectSeq(SubSeq(allData, lower + 1, upper - 1),
                  LAMBDA d : "trial_part" \in DOMAIN d)

\* The dimension a prompt entry asks about
DimensionOf(d) ==
    IF d.trial_part = "trait_rating" THEN d.trait
    ELSE IF d.trial_part = "race_question" THEN "race" ELSE "smile"

\* The order of dimensions a recorded outcome states
StatedOrder(v) ==
    IF "trait_order" \in DOMAIN v THEN v.trait_order
    ELSE IF v.question_order = "race_first" THEN <<"race", "smile">>
    ELSE <<"smile", "race">>

\* C30: in the perception and traits variants the prompts of a presentation
\* are written one after the other in the order its outcome states
\* (question_order, trait_order), each dimension once, and the record step
\* directly follows the last prompt.
C30_PromptsInRecordedOrder ==
    exportVariant \in {"perception", "traits"} =>
        LET records == {i \in 1..Len(allData) :
                           IsOutcomeEntry(exportVariant, allData[i])}
        IN  \A k \in 1..Cardinality(records) :
                LET prompts == PromptsOf(k)
                    v       == allData[Nth(records, k)].value
                    n       == IF exportVariant = "traits" THEN 4 ELSE 2
                IN  /\ Len(prompts) = n
                    /\ [i \in 1..n |-> DimensionOf(prompts[i])] = StatedOrder(v)
                    /\ Cardinality({DimensionOf(prompts[i]) : i \in 1..n}) = n
                    /\ "trial_part" \in DOMAIN allData[Nth(records, k) - 1]

\* Two perception presentations were recorded, one asking race first and one
\* asking smile first
C30_Witness ==
    /\ exportVariant = "perception"
    /\ Len(presentations) = 2
    /\ DimensionOf(PromptsOf(1)[1]) # DimensionOf(PromptsOf(2)[1])


----------------------------------------------------------------------------
(* Claims about the grids of the memory experiment, practice grid included *)

AnyGridGenerated == gridVariant \in GridVariants \cup {"practice"}

\* The round data createRound stores for the grid just generated
StoredRound ==
    RoundWithGrid([size |-> grid.size, questionType |-> "race"],
                  gridVariant = "practice", grid,
                  CHOOSE d \in RoundDraws : TRUE).baseRoundData

\* C31: for every generated grid, main or practice, the actual_* counts
\* stored with the round equal the number of displayed images of each race
\* and of each expression, no individual appears twice in the grid, and the
\* race counts and the expression counts each sum to the grid size.
C31_StoredCountsMatchGrid ==
    AnyGridGenerated =>
        LET actual == StoredRound.actual
            n      == Len(grid.images)
        IN  /\ actual.asian = RaceCountIn(grid, "asian")
            /\ actual.black = RaceCountIn(grid, "black")
            /\ actual.hispanic = RaceCountIn(grid, "hispanic")
            /\ actual.white = RaceCountIn(grid, "white")
            /\ actual.smiling = CountIf(grid.images, LAMBDA img : img.smile)
            /\ actual.not_smiling = CountIf(grid.images, LAMBDA img : ~img.smile)
            /\ \A i, j \in 1..n :
                  grid.images[i].individual_id = grid.images[j].individual_id
                      => i = j
            /\ Len(StoredRound.grid_order) = n
            /\ actual.asian + actual.black + actual.hispanic + actual.white = n
            /\ actual.smiling + actual.not_smiling = n
            /\ n = IF gridVariant = "grid12" THEN TotalImages12 ELSE TotalImages8

\* C31 witness: a main grid whose expressions are unevenly split and whose
\* positions were shuffled
C31_Witness ==
    /\ gridVariant = "grid8"
    /\ grid.composition.smiling = 6
    /\ grid.composition.not_smiling = 2
    /\ grid.images[1].individual_id # <<"black", "male", "01">>

\* The practice individual shown in an image
PracticeIndividualOf(img) ==
    CHOOSE ind \in Range(PracticeIndividuals) :
        <<ind.race, ind.gender, ind.num>> = img.individual_id

\* C32: a practice grid never shows the smiling image of an individual whose
\* hasSmile is false, and always has exactly 4 smiling and 4 non-smiling
\* faces and exactly 2 faces of each race, for every outcome of the shuffle.
C32_PracticeGridComposition ==
    gridVariant = "practice" =>
        /\ \A i \in 1..Len(grid.images) :
              /\ grid.images[i].smile => PracticeIndividualOf(grid.images[i]).hasSmile
              /\ grid.images[i].image_path[4] =
                    (IF grid.images[i].smile THEN "smile" ELSE "nosmile")
        /\ CountIf(grid.images, LAMBDA img : img.smile) = 4
        /\ CountIf(grid.images, LAMBDA img : ~img.smile) = 4
        /\ \A r \in Range(Races) : RaceCountIn(grid, r) = 2
        /\ grid.composition.smiling = 4
        /\ grid.composition.not_smiling = 4

\* C32 witness: a practice grid in which an individual that has a smiling
\* image (black_male_01) is the one left not smiling
C32_Witness ==
    /\ gridVariant = "practice"
    /\ \E i \in 1..Len(grid.images) :
          /\ grid.images[i].individual_id = <<"black", "male", "01">>
          /\ ~grid.images[i].smile


----------------------------------------------------------------------------
(* Claims about the exporter's temporary elements *)

\* C33: after a submission the temporary form and iframe stay attached to
\* the document until the 5-second cleanup runs (they are never detached by
\* anything else), and the cleanup removes both without error.
C33_FormAttachedUntilCleanup ==
    /\ exportDom \in {"none", "attached", "removed"}
    /\ exportResult = "sent" /\ pc \in {"finished", "ended", "closed"}
          => exportDom \in {"attached", "removed"}


----------------------------------------------------------------------------
(* detectZoomLevel and isZoomAt100 as functions of window.devicePixelRatio *)

\* The ratios probed, in hundredths: browser zoom 25% on a 1x display up to
\* 250% on a 2x display
MinProbeDPR == 25
MaxProbeDPR == 500

NoProbe == [dpr |-> 0, zoomLevel |-> 0, at100 |-> FALSE]

\* detectZoomLevel() and isZoomAt100() are called with the display at ratio d
DetectZoom ==
    /\ zoomProbe = NoProbe
    /\ \E d \in MinProbeDPR..MaxProbeDPR :
          zoomProbe' = [ dpr       |-> d,
                         zoomLevel |-> detectZoomLevel(d),
                         at100     |-> isZoomAt100(d) ]
    /\ UNCHANGED <<gridVars, assignVars, roundVars, sessVars, promptVars,
                   exportVars>>

ZoomNext == DetectZoom

SpecZoom == Init /\ [][ZoomNext]_vars

\* C34: detectZoomLevel returns the zoom percentage of each case documented
\* in its comment: ratio 1.00 gives 100, 1.20 gives 120, 1.50 gives 150,
\* 2.00 (2x display at 100% zoom) gives 100 and 3.00 (2x display at 150%
\* zoom) gives 150.
C34_DocumentedZoomCases ==
    /\ zoomProbe.dpr = 100 => zoomProbe.zoomLevel = 100
    /\ zoomProbe.dpr = 120 => zoomProbe.zoomLevel = 120
    /\ zoomProbe.dpr = 150 => zoomProbe.zoomLevel = 150
    /\ zoomProbe.dpr = 200 => zoomProbe.zoomLevel = 100
    /\ zoomProbe.dpr = 300 => zoomProbe.zoomLevel = 150


----------------------------------------------------------------------------
(* Claims about the monitor's callbacks *)

\* A resize, media-query or poll callback, or the fullscreen-change handler,
\* runs in this step
CallbackFires ==
    ResizeEvent \/ MediaQueryChange \/ PollTick \/ handleFullscreenChange

\* What a callback that has been made inert leaves alone (everything but
\* the consumed event and the re-keyed media query)
InertStep ==
    /\ zoomChanges' = zoomChanges
    /\ lastWarnedDPR' = lastWarnedDPR
    /\ UNCHANGED <<flowVars, uiVars, dataVars, endVars, dpr, fullscreen,
                   experimentTerminatedDueToZoom, inPracticeMode,
                   zoomTrackingActive, approvedDPR>>

\* C35: once the session has ended (debrief finished, consent declined or
\* zoom termination), every firing of the resize, media-query or poll
\* callback and of the fullscreen-change handler leaves the session state
\* unchanged: no zoom_changes entry, no warning, termination or fullscreen
\* overlay.
C35_CallbacksInertAfterEnd ==
    [][SessionEnded /\ CallbackFires => InertStep]_vars


----------------------------------------------------------------------------
(* The session on a display whose ratio stays within the tolerance of the   *)
(* approved one: as SpecSession, but once initZoomTracking has captured the *)
(* ratio the participant's zooming moves it by at most 0.01 around it       *)

ZoomDrift ==
    /\ pc \notin {"start", "finished", "ended", "closed"}
    /\ \E d \in (IF zoomTrackingActive
                 THEN {approvedDPR - 1, approvedDPR, approvedDPR + 1}
                 ELSE DPRValues) \ {dpr} : dpr' = d
    /\ UNCHANGED <<probeVars, gridVars, assignVars, roundVars, promptVars,
                   exportVars, endVars, flowVars, fullscreen, fsRequest,
                   fsChangePending, fsMonitoring, monVars, uiVars, dataVars>>

SteadyNext ==
    \/ RunExperiment
    \/ FinishPreload
    \/ ClickButton
    \/ EnterFullscreenClick
    \/ ZoomCheckClick
    \/ InitZoomTrackingAgain
    \/ ConsentAgree
    \/ ConsentDecline
    \/ ScreenTimeout
    \/ AnswerQuestion
    \/ QuestionTimeout
    \/ PracticeFeedbackClick
    \/ DebriefClick
    \/ ExportSettles
    \/ CloseTimer
    \/ CleanupTimer
    \/ ZoomDrift
    \/ UserExitsFullscreen
    \/ ResolveFullscreenRequest
    \/ handleFullscreenChange
    \/ ReturnToFullscreenClick
    \/ ResizeEvent
    \/ MediaQueryChange
    \/ PollTick

SpecSteady == Init /\ [][SteadyNext]_vars

----------------------------------------------------------------------------
(* Claims about the exported zoom tracking *)

\* exportData has been called: the payload was built from the monitor's
\* state, which no callback changes from then on
Exported == exportCalls >= 1

\* C37: whenever the exported zoom_tracking has terminated_due_to_zoom =
\* true, practice mode had ended, zoom_changes is non-empty, its last
\* entry's current_dpr differs from approved_dpr by more than 0.01, and
\* zoom_changes_count is the length of zoom_changes.
C37_TerminatedExportIsConsistent ==
    Exported =>
        LET z == getZoomTrackingData
        IN  /\ z.zoom_changes_count = Len(z.zoom_changes)
            /\ z.terminated_due_to_zoom =>
                  /\ ~inPracticeMode
                  /\ z.zoom_changes # <<>>
                  /\ z.approved_dpr # NULL
                  /\ Abs(z.zoom_changes[Len(z.zoom_changes)].current_dpr
                         - z.approved_dpr) > 1
                  /\ z.zoom_changes[Len(z.zoom_changes)].approved_dpr
                        = z.approved_dpr

\* C37 witness: a perception session terminated by the monitor has been
\* exported, after a deviation warned about in practice and the fatal one
C37_Witness ==
    /\ experiment = "perception"
    /\ Exported
    /\ exportResult = "sent"
    /\ experimentTerminatedDueToZoom
    /\ Len(zoomChanges) >= 2


\* checkForZoomChange runs in this step, called by one of its triggers
ZoomCallbackFires == ResizeEvent \/ MediaQueryChange \/ PollTick

\* The ratio is off the approved one while the session is live and tracked
LiveDeviation ==
    /\ zoomTrackingActive
    /\ ~experimentEnded
    /\ ~experimentTerminatedDueToZoom
    /\ approvedDPR # NULL
    /\ Abs(dpr - approvedDPR) > 1

\* The screens between the display check and the practice block
PreambleScreens == {"welcome", "consent", "demographics", "instructions"}

\* C38: a deviation detected while the debrief screen is shown terminates
\* the session with terminated_due_to_zoom = true, and the exporter is still
\* called with the outcomes recorded so far; a deviation detected on the
\* welcome, consent, demographics or instruction screen is recorded and at
\* most warned about, it never terminates.
C38_DebriefTerminatesPreambleWarns ==
    [][ /\ (pc = "debrief" /\ LiveDeviation /\ ZoomCallbackFires) =>
              /\ experimentTerminatedDueToZoom'
              /\ getZoomTrackingData'.terminated_due_to_zoom
              /\ endMessage' = "zoom"
              /\ pc' = "finished"
              /\ exportCalls' = exportCalls + 1
              /\ outcomes' = outcomes
              /\ trialNumber' = trialNumber
        /\ (pc \in PreambleScreens /\ LiveDeviation /\ ZoomCallbackFires) =>
              /\ inPracticeMode
              /\ ~experimentTerminatedDueToZoom'
              /\ pc' = pc
              /\ exportCalls' = exportCalls
              /\ zoomChanges' = Append(zoomChanges, ZoomChangeEntry)
              /\ warningOverlay' = (warningOverlay \/ Warns) ]_vars

\* C38 witness: the monitor terminated the session after the last main
\* presentation had been recorded (the debrief screen was up) and the
\* exporter was called; the session had also been warned on an earlier screen
C38_Witness ==
    /\ experimentTerminatedDueToZoom
    /\ trialNumber = MainTrials
    /\ exportCalls = 1
    /\ warnLog # <<>>
    /\ pc = "finished"


----------------------------------------------------------------------------
(* Claims about the fullscreen monitor at the end of the session *)

\* C39: the step in which the page leaves fullscreen by itself is the one
\* that sets experimentEnded (on_finish sets the flag first), and a
\* fullscreen-change handler that runs once experimentEnded is set shows no
\* 'Return to Fullscreen' prompt, in every ending.
C39_ProgrammaticExitShowsNoPrompt ==
    [][ /\ (~experimentEnded /\ experimentEnded') =>
              /\ ~fullscreen'
              /\ fsOverlay' = fsOverlay
              /\ fullscreenWarningShown' = fullscreenWarningShown
              /\ fullscreen /\ fsMonitoring => fsChangePending'
        /\ (experimentEnded /\ handleFullscreenChange) =>
              /\ fsOverlay' = fsOverlay
              /\ fullscreenWarningShown' = fullscreenWarningShown
        /\ experimentEnded => experimentEnded' ]_vars

\* C39 witness: a session terminated by the monitor left fullscreen in
\* on_finish, the handler has run on that event, and no prompt is up
C39_Witness ==
    /\ experimentEnded
    /\ endMessage = "zoom"
    /\ pc = "ended"
    /\ fsMonitoring
    /\ ~fullscreen
    /\ ~fsChangePending
    /\ ~fsOverlay
    /\ ~fullscreenWarningShown


\* C40: in practice mode every run of checkForZoomChange that observes a
\* deviation appends exactly one zoom_changes entry, warning or not, so a
\* sustained deviation adds one entry per trigger; zoom_changes only grows
\* by appending and its entries are never modified or removed.
C40_OneEntryPerDeviatingRun ==
    [][ /\ \/ zoomChanges' = zoomChanges
           \/ /\ zoomChanges' = Append(zoomChanges, ZoomChangeEntry)
              /\ ZoomCallbackFires
        /\ (inPracticeMode /\ LiveDeviation /\ ZoomCallbackFires) =>
              /\ zoomChanges' = Append(zoomChanges, ZoomChangeEntry)
              /\ ZoomChangeEntry.current_dpr = dpr
              /\ ~experimentTerminatedDueToZoom' ]_vars

\* C40 witness: still in practice, a sustained deviation has been recorded
\* by two runs of the check and warned about once
C40_Witness ==
    /\ inPracticeMode
    /\ Len(zoomChanges) >= 2
    /\ zoomChanges[1].current_dpr = zoomChanges[2].current_dpr
    /\ Len(warnLog) = 1

====
